---- MODULE Spec2Model ----
(***************************************************************************)
(* Scene Transition extension (AlexSzeto/scene-transition).                *)
(*                                                                         *)
(* Two variants of the extension are modelled side by side:                *)
(*   "ungated" - src/unnamed/part_001 : the trigger decision uses the      *)
(*               persisted auto flag alone, generateSceneLine() takes no   *)
(*               arguments, the background argument is parsed with         *)
(*               === 'true';                                               *)
(*   "gated"   - src/unnamed/part_000 : the trigger decision also needs    *)
(*               isStableDiffusionAvailable(), generateSceneLine takes     *)
(*               {instruction, style, maxTokens}, the background argument  *)
(*               is passed on verbatim.                                    *)
(*                                                                         *)
(* JavaScript strings are sequences of tokens (a token is an indivisible   *)
(* piece of text; " " and "\n" are the whitespace tokens), so that         *)
(* concatenation, trimming and containment are computed, not assumed.      *)
(* Every collaborator call that the code awaits is a suspension point: the *)
(* call and its completion are separate steps, and the completion either   *)
(* returns or throws an Error with a message.                              *)
(***************************************************************************)
EXTENDS Integers, Sequences, FiniteSets, TLC

\* ------------------------------------------------------------------ bounds
\* number of transition invocations (slash command or button) in one run
MaxInv == 2
\* number of persistence flushes (settings writes) in one run
MaxUpdates == 1
\* number of direct calls of the settings functions in one run of
\* SpecSettings
MaxSettingsOps == 3

\* ------------------------------------------------------------- JS values
JsUndef == [type |-> "undefined", b |-> FALSE, n |-> 0, s |-> <<>>]
JsNull == [type |-> "null", b |-> FALSE, n |-> 0, s |-> <<>>]
JsBool(x) == [type |-> "boolean", b |-> x, n |-> 0, s |-> <<>>]
JsNum(x) == [type |-> "number", b |-> FALSE, n |-> x, s |-> <<>>]
JsStr(x) == [type |-> "string", b |-> FALSE, n |-> 0, s |-> x]

\* ToBoolean: undefined, null, false, 0 and "" are falsy
Truthy(v) ==
  CASE v.type = "undefined" -> FALSE
    [] v.type = "null" -> FALSE
    [] v.type = "boolean" -> v.b
    [] v.type = "number" -> v.n # 0
    [] OTHER -> v.s # <<>>

Whitespace == {" ", "\n"}

RECURSIVE TrimStart(_)
TrimStart(s) ==
  IF s # <<>> /\ Head(s) \in Whitespace THEN TrimStart(Tail(s)) ELSE s

RECURSIVE TrimEnd(_)
TrimEnd(s) ==
  IF s # <<>> /\ s[Len(s)] \in Whitespace
  THEN TrimEnd(SubSeq(s, 1, Len(s) - 1))
  ELSE s

\* String.prototype.trim
Trim(s) == TrimEnd(TrimStart(s))

\* String(x) for the values a generation backend returns
NumText(n) == <<ToString(n)>>

ToStr(v) ==
  CASE v.type = "string" -> v.s
    [] v.type = "number" -> NumText(v.n)
    [] v.type = "boolean" -> IF v.b THEN <<"true">> ELSE <<"false">>
    [] v.type = "null" -> <<"null">>
    [] OTHER -> <<"undefined">>

\* s contains m as a contiguous piece
Contains(s, m) ==
  \E i \in 1..(Len(s) - Len(m) + 1) : SubSeq(s, i, i + Len(m) - 1) = m

StartsWith(s, p) == Len(s) >= Len(p) /\ SubSeq(s, 1, Len(p)) = p

\* ------------------------------------------------- constants of the code
VariantUngated == "ungated"
VariantGated == "gated"
Variants == {VariantUngated, VariantGated}
\* the earlier version of the settings functions, kept in src/index.js: one
\* recognized option, and a getSettings that returns the record as it is
VariantLegacy == "legacy"
SettingsVariants == Variants \cup {VariantLegacy}

SettingsFields == {"sceneChangeInstructions", "autoGenerateBackground"}

\* DEFAULT_SETTINGS.sceneChangeInstructions, with its {{char}} and {{user}}
\* placeholders kept as tokens of their own
DefaultInstructionsText(v) ==
  IF v = VariantUngated
  THEN <<"Write a scene transition in the perspective of ", "{{char}}",
         ". ... Do not write dialog for ", "{{user}}", ".">>
  ELSE <<"Write a scene transition, using the perspective of ", "{{char}}",
         ". ... Do not write dialog for ", "{{user}}", ". ...">>

\* a settings object: `has` are its own properties; a property it lacks
\* reads as undefined, which the fields hold as "" and false
DEFAULT_SETTINGS(v) ==
  [has |-> IF v = VariantLegacy THEN {"sceneChangeInstructions"}
           ELSE SettingsFields,
   sceneChangeInstructions |-> DefaultInstructionsText(v),
   autoGenerateBackground |-> FALSE]

\* {}
EmptyObject ==
  [has |-> {}, sceneChangeInstructions |-> <<>>,
   autoGenerateBackground |-> FALSE]

\* { ...a, ...b }: the properties of both, b's value where both have one
ObjectSpread(a, b) ==
  [has |-> a.has \cup b.has,
   sceneChangeInstructions |->
     IF "sceneChangeInstructions" \in b.has THEN b.sceneChangeInstructions
     ELSE a.sceneChangeInstructions,
   autoGenerateBackground |->
     IF "autoGenerateBackground" \in b.has THEN b.autoGenerateBackground
     ELSE a.autoGenerateBackground]

DefaultNote ==
  <<"Allow the character to transition to a new scene that makes sense.">>

SceneLineInserted == <<"Scene line inserted.">>
NoOutputGenerated == <<"No output generated.">>
ErrorPrefix == <<"Error: ">>

\* the message of the TypeError raised by ctx.extensionSettings[KEY] when the
\* host context has no extensionSettings
SettingsReadError == <<"Cannot read properties of undefined">>

\* ------------------------------------------------ what collaborators do
\* messages of the Errors a collaborator may throw
ErrMsgs == {<<"boom">>}

Ok == [ok |-> TRUE, msg |-> <<>>]
Throws(m) == [ok |-> FALSE, msg |-> m]
\* a collaborator call returns, or throws an Error
CollabOutcomes == {Ok} \cup {Throws(m) : m \in ErrMsgs}
\* a read of ctx.extensionSettings returns, or raises the TypeError
SettingsReadOutcomes == {Ok, Throws(SettingsReadError)}

\* values the generation backend resolves to
GenResults ==
  {JsStr(<<" ", "Hello there.", "\n">>), JsStr(<<" ">>), JsNull}

\* named.background as the caller passes it: absent, the command-line text,
\* or a boolean from a programmatic caller
BackgroundArgs ==
  {JsUndef, JsStr(<<"true">>), JsStr(<<"false">>), JsBool(TRUE), JsBool(FALSE)}

\* the instructions textarea after the user cleared it
ClearedText == <<>>
\* what the user leaves in the instructions textarea: it cleared, or a text
TextareaValues == {ClearedText, <<"Fade to black.">>}

\* the unnamed argument (scene notes) and named.style, as a caller pairs them
NoteStyleArgs ==
  {<<JsStr(<<>>), JsUndef>>, <<JsStr(<<"The rain picks up.">>), JsUndef>>,
   <<JsStr(<<"The rain picks up.">>), JsStr(<<"noir">>)>>}

\* the arguments of /scene-transition: the unnamed text, style= and max=
NoRequest == [unnamed |-> JsUndef, style |-> JsUndef, max |-> JsUndef]
UnnamedArgs ==
  {JsUndef, JsStr(<<>>), JsStr(<<" ", "\n">>), JsNum(5),
   JsStr(<<"The rain picks up.">>)}
StyleArgs == {JsUndef, JsStr(<<>>), JsStr(<<"noir">>)}
MaxArgs ==
  {JsUndef, JsStr(<<>>), JsStr(<<"0">>), JsStr(<<"2", "0", "0">>), JsNum(0),
   JsNum(64)}
Requests ==
  {[unnamed |-> u, style |-> st, max |-> m] :
     u \in UnnamedArgs, st \in StyleArgs, m \in MaxArgs}

\* nothing handed to generateQuietPrompt yet
NoDispatch ==
  [sent |-> FALSE, quietPrompt |-> <<>>, quietToLoud |-> FALSE,
   maxTokens |-> JsUndef]

\* ctx.extensionSettings[EXTENSION_SETTINGS_KEY] as a previous session left it:
\* `exists` says whether a record is there, `has` which fields it holds
NoRecord ==
  [exists |-> FALSE, has |-> {}, sceneChangeInstructions |-> <<>>,
   autoGenerateBackground |-> FALSE]

StoredBlobs ==
  {NoRecord,
   [exists |-> TRUE, has |-> {}, sceneChangeInstructions |-> <<>>,
    autoGenerateBackground |-> FALSE],
   [exists |-> TRUE, has |-> {"autoGenerateBackground"},
    sceneChangeInstructions |-> <<>>, autoGenerateBackground |-> TRUE],
   [exists |-> TRUE, has |-> SettingsFields,
    sceneChangeInstructions |-> <<"Cut to the harbour with ", "{{char}}">>,
    autoGenerateBackground |-> FALSE]}

\* ctx.extensionSettings.sd of the image extension
NoSdRecord == [exists |-> FALSE, source |-> ""]

SdRecords ==
  {NoSdRecord, [exists |-> TRUE, source |-> "comfy"],
   [exists |-> TRUE, source |-> "bogus"]}

validSources ==
  {"extras", "horde", "auto", "vlad", "drawthings", "novel", "openai", "comfy",
   "togetherai", "pollinations", "stability", "huggingface", "nanogpt", "bfl",
   "falai", "xai", "google"}

CharNames == {<<"Seraphina">>}
\* the character the user may open while an invocation is under way
OtherCharNames == {<<"Kaito">>}

\* ---------------------------------------------------------------- the page
\* the ids of the elements createSettingsUI puts in the settings container:
\* the drawer, the instructions textarea and the background checkbox
DrawerId == "scene-transition-settings-drawer"
InstructionsId == "scene-transition-settings-instructions"
BackgroundId == "scene-transition-settings-background"
\* the id createSettingsUI looks for before it builds the drawer
ContainerId == "scene-transition-settings-container"

\* the page with the settings container #extensions_settings2 and nothing
\* of the extension in it
HostDom == [container |-> TRUE, ids |-> <<>>]
\* the page with or without the settings container
Doms == {HostDom, [container |-> FALSE, ids |-> <<>>]}

\* document.getElementById(id), for the ids of the extension
ElementExists(d, id) == \E k \in 1..Len(d.ids) : d.ids[k] = id

\* createSettingsUI(): without the settings container it reports an error;
\* with an element #scene-transition-settings-container it returns;
\* otherwise it appends a drawer with the two controls
createSettingsUI(d) ==
  IF ~d.container THEN d
  ELSE IF ElementExists(d, ContainerId) THEN d
  ELSE [d EXCEPT !.ids = @ \o <<DrawerId, InstructionsId, BackgroundId>>]

\* ------------------------------------------------------ the probed host
\* what isStableDiffusionAvailable finds: getContext() throws or not, the
\* context has extensionSettings or not, and the sd record
NoProbeHost ==
  [throws |-> FALSE, hasExtensionSettings |-> FALSE,
   sd |-> [exists |-> FALSE, source |-> ""]]

VARIABLES
  variant,         \* which variant of the extension is loaded
  hasQuietPrompt,  \* whether ctx.generateQuietPrompt is wired
  stored,          \* ctx.extensionSettings[EXTENSION_SETTINGS_KEY]
  sd,              \* ctx.extensionSettings.sd
  flushes,         \* calls of ctx.saveSettingsDebounced so far
  flushed,         \* the record under the key when the last flush was requested
  ready,           \* onReady has run
  activeChar,      \* ctx.characters[ctx.characterId].name
  chat,            \* ctx.chat
  inv,             \* the invocations of sceneTransitionCallback in flight
  started,         \* invocations started so far
  overlap,         \* whether the run lets invocations overlap (Spec runs
                   \* them one after the other)
  opLog,           \* the settings functions SpecSettings has called, in
                   \* order
  lastRead,        \* what the last getSettings() of SpecSettings returned
  request,         \* the arguments of the command SpecCompose composes for
  dispatch,        \* what SpecCompose handed to generateQuietPrompt
  buttonDisabled,  \* the Change Scene button carries the class 'disabled'
  dom,             \* the settings container and the elements put in it
  probeHost,       \* the host context SpecProbe probes
  probeResult      \* what isStableDiffusionAvailable() returned there

\* the calls SpecSettings and SpecCompose make on functions directly
directVars ==
  <<opLog, lastRead, request, dispatch, probeHost, probeResult>>
\* the elements of the page the extension creates
uiVars == <<buttonDisabled, dom>>
\* what no step of a transition changes
hostVars == <<variant, hasQuietPrompt, sd, activeChar, overlap, directVars>>
settingsVars == <<stored, flushes, flushed>>
vars == <<hostVars, uiVars, settingsVars, ready, chat, inv, started>>

\* an invocation occupies a slot from its call until its caller has the
\* outcome
Slots == {1, 2}

\* runs with overlapping invocations are explored with the arguments left
\* out, results of the backend of every kind (texts that differ, a number,
\* null, undefined, empty and blank text), and collaborators of the
\* insertion that return
OverlapGenResults ==
  {JsStr(<<" ", "Hello there.", "\n">>), JsStr(<<"Bye.">>), JsNum(7), JsNull,
   JsUndef, JsStr(<<>>), JsStr(<<" ", "\n">>)}
StartBackgrounds == IF overlap THEN {JsUndef} ELSE BackgroundArgs
StartNoteStyles == IF overlap THEN {<<JsStr(<<>>), JsUndef>>} ELSE NoteStyleArgs
ResultsNow == IF overlap THEN OverlapGenResults ELSE GenResults
OutcomesNow == IF overlap THEN {Ok} ELSE CollabOutcomes
ReadOutcomesNow == IF overlap THEN {Ok} ELSE SettingsReadOutcomes

\* ------------------------------------------------------------- settings
\* ctx.extensionSettings[EXTENSION_SETTINGS_KEY] || {}
StoredObject(st) ==
  IF st.exists
  THEN [has |-> st.has,
        sceneChangeInstructions |->
          IF "sceneChangeInstructions" \in st.has
          THEN st.sceneChangeInstructions ELSE <<>>,
        autoGenerateBackground |->
          "autoGenerateBackground" \in st.has /\ st.autoGenerateBackground]
  ELSE EmptyObject

\* a getSettings that returns the record as it is in every variant
getSettingsUnfilled(v, st) == StoredObject(st)

\* getSettings: { ...DEFAULT_SETTINGS, ...userSettings }; the legacy version
\* returns ctx.extensionSettings[EXTENSION_SETTINGS_KEY] || {}
getSettings(v, st) ==
  IF v = VariantLegacy THEN StoredObject(st)
  ELSE ObjectSpread(DEFAULT_SETTINGS(v), StoredObject(st))

\* a getSettings that writes the defaults under the key when it finds none
StoredAfterGetWritesDefaults(v, st) ==
  IF st.exists THEN st
  ELSE [exists |-> TRUE, has |-> DEFAULT_SETTINGS(v).has,
        sceneChangeInstructions |-> DefaultInstructionsText(v),
        autoGenerateBackground |-> FALSE]

\* a getSettings that leaves the object it built under the key
StoredAfterGetMerged(v, st) ==
  [exists |-> TRUE, has |-> getSettings(v, st).has,
   sceneChangeInstructions |-> getSettings(v, st).sceneChangeInstructions,
   autoGenerateBackground |-> getSettings(v, st).autoGenerateBackground]

\* the record under the key after getSettings: it assigns nothing there,
\* `|| {}` and the spread build objects of their own
StoredAfterGet(v, st) == st

\* a saveSettings that removes the record when the instructions are empty
SavedRecordUnlessCleared(settings) ==
  IF settings.sceneChangeInstructions = <<>> THEN NoRecord
  ELSE [exists |-> TRUE, has |-> settings.has,
        sceneChangeInstructions |-> settings.sceneChangeInstructions,
        autoGenerateBackground |-> settings.autoGenerateBackground]

\* the record saveSettings(settings) leaves under the key
SavedRecord(settings) ==
  [exists |-> TRUE, has |-> settings.has,
   sceneChangeInstructions |-> settings.sceneChangeInstructions,
   autoGenerateBackground |-> settings.autoGenerateBackground]

\* a saveSettings that requests the flush before it assigns the record
KeyAtFlushBeforeStore(st, settings) == st

\* the record under the key when saveSettings calls saveSettingsDebounced:
\* the assignment to ctx.extensionSettings[KEY] comes first
KeyAtFlush(st, settings) == SavedRecord(settings)

\* an initializeSettings that writes the defaults on every call
NeedsInitialRecordAlways(st) == TRUE

\* an initializeSettings that also replaces a record missing a field
NeedsInitialRecordIfIncomplete(st) == ~st.exists \/ st.has # SettingsFields

\* if (!ctx.extensionSettings[EXTENSION_SETTINGS_KEY])
NeedsInitialRecord(st) == ~st.exists

\* currentSettings.sceneChangeInstructions = value
WithInstructions(settings, value) ==
  [settings EXCEPT !.has = @ \cup {"sceneChangeInstructions"},
                   !.sceneChangeInstructions = value]

\* a checkbox handler that saves an object with its own option alone
WithAutoGenerateAlone(settings, checked) ==
  [has |-> {"autoGenerateBackground"}, sceneChangeInstructions |-> <<>>,
   autoGenerateBackground |-> checked]

\* currentSettings.autoGenerateBackground = checked
WithAutoGenerate(settings, checked) ==
  [settings EXCEPT !.has = @ \cup {"autoGenerateBackground"},
                   !.autoGenerateBackground = checked]

\* isStableDiffusionAvailable (gated variant): an sd record whose source is
\* one of validSources
isStableDiffusionAvailable(sdRec) ==
  IF ~sdRec.exists THEN FALSE
  ELSE IF sdRec.source = "" THEN FALSE
  ELSE sdRec.source \in validSources

\* ------------------------------------------------- sceneTransitionCallback
\* const generateBg = ...: the explicit per-invocation flag
ParseBackground(v, background) ==
  IF background.type = "undefined" THEN JsUndef
  ELSE IF v = VariantUngated
       THEN JsBool(background = JsStr(<<"true">>))
       ELSE background

\* a callback that takes any text as the note, and no note otherwise
ParseInstructionUnchecked(unnamed) ==
  IF unnamed.type = "string" THEN unnamed.s ELSE <<>>

\* const instruction = typeof unnamed === 'string' && unnamed.trim() ? ... : ...
ParseInstruction(unnamed) ==
  IF unnamed.type = "string" /\ Trim(unnamed.s) # <<>>
  THEN unnamed.s
  ELSE DefaultNote

\* const style = named?.style || undefined
ParseStyle(style) == IF Truthy(style) THEN style ELSE JsUndef

\* "120", one token a character
Text120 == <<"1", "2", "0">>

\* const max = named?.max || "120"
ParseMax(max) == IF Truthy(max) THEN max ELSE JsStr(Text120)

Digits == {"0", "1", "2", "3", "4", "5", "6", "7", "8", "9"}

DigitValue(t) ==
  CASE t = "0" -> 0 [] t = "1" -> 1 [] t = "2" -> 2 [] t = "3" -> 3
    [] t = "4" -> 4 [] t = "5" -> 5 [] t = "6" -> 6 [] t = "7" -> 7
    [] t = "8" -> 8 [] OTHER -> 9

RECURSIVE DecimalValue(_)
DecimalValue(s) ==
  IF s = <<>> THEN 0
  ELSE 10 * DecimalValue(SubSeq(s, 1, Len(s) - 1)) + DigitValue(s[Len(s)])

\* NaN
JsNaN == [type |-> "nan", b |-> FALSE, n |-> 0, s |-> <<>>]

\* Number(x): a text is trimmed, the empty text is 0, a text of digits its
\* value and any other text NaN
Number(v) ==
  CASE v.type = "number" -> v
    [] v.type = "string" ->
         LET t == Trim(v.s)
         IN IF \A k \in 1..Len(t) : t[k] \in Digits
            THEN JsNum(DecimalValue(t)) ELSE JsNaN
    [] v.type = "boolean" -> JsNum(IF v.b THEN 1 ELSE 0)
    [] v.type = "null" -> JsNum(0)
    [] OTHER -> JsNaN

\* a generateSceneLine that passes the budget on as the text it got
MaxTokensUnconverted(v, maxTokens) ==
  IF v = VariantUngated THEN JsUndef
  ELSE IF Truthy(maxTokens) THEN maxTokens ELSE JsNum(120)

\* the maxTokens property of the argument of generateQuietPrompt:
\* maxTokens ? Number(maxTokens) : 120, and no such property in the ungated
\* variant
MaxTokens(v, maxTokens) ==
  IF v = VariantUngated THEN JsUndef
  ELSE IF Truthy(maxTokens) THEN Number(maxTokens) ELSE JsNum(120)

\* a decision that forgets the explicit flag and looks at the settings only
ShouldGenerateBackgroundSettingsOnly(v, generateBg, settings, isSDAvailable) ==
  IF v = VariantUngated
  THEN JsBool(settings.autoGenerateBackground)
  ELSE JsBool(settings.autoGenerateBackground /\ isSDAvailable)

\* a decision that asks for the availability probe in both variants
ShouldGenerateBackgroundProbed(v, generateBg, settings, isSDAvailable) ==
  IF generateBg.type # "undefined" THEN generateBg
  ELSE JsBool(settings.autoGenerateBackground /\ isSDAvailable)

\* a decision that uses the auto flag alone in both variants
ShouldGenerateBackgroundUnprobed(v, generateBg, settings, isSDAvailable) ==
  IF generateBg.type # "undefined" THEN generateBg
  ELSE JsBool(settings.autoGenerateBackground)

\* the trigger decision: shouldGenerateBackground
ShouldGenerateBackground(v, generateBg, settings, isSDAvailable) ==
  IF generateBg.type # "undefined"
  THEN generateBg
  ELSE IF v = VariantUngated
       THEN JsBool(settings.autoGenerateBackground)
       ELSE JsBool(settings.autoGenerateBackground /\ isSDAvailable)

\* ------------------------------------------------------ generateSceneLine
\* the gated variant's `[DEBUG] Scene transition test - ...` template
TestMessage(instruction, style) ==
  <<"[DEBUG] Scene transition test - ">>
    \o (IF instruction # <<>> THEN instruction ELSE <<"no instruction">>)
    \o <<" ">>
    \o (IF Truthy(style) THEN <<"(style: ">> \o style.s \o <<")">> ELSE <<>>)

\* a fallback that leaves the notes and the style out
UnavailableMessageBare(v, instruction, style) ==
  <<"[DEBUG] Scene transition failed">>

\* the value returned when ctx.generateQuietPrompt is missing
UnavailableMessage(v, instruction, style) ==
  IF v = VariantUngated
  THEN <<"[DEBUG] Scene transition failed">>
  ELSE TestMessage(instruction, style)

\* a catch block that leaves the message of the error out
ErrorFallbackMessageNoText(v, instruction, style, msg) ==
  IF v = VariantUngated
  THEN <<"[DEBUG] Scene transition failed: ">>
  ELSE TestMessage(instruction, style)

\* the value returned from the catch block, for an Error with message msg
ErrorFallbackMessage(v, instruction, style, msg) ==
  IF v = VariantUngated
  THEN <<"[DEBUG] Scene transition failed: ">> \o msg
  ELSE TestMessage(instruction, style)

\* a generateSceneLine that returns the result without trimming it
FinalResultUntrimmed(result) ==
  IF result.type = "string" THEN result.s
  ELSE IF result.type \in {"null", "undefined"} THEN <<>>
  ELSE ToStr(result)

\* finalResult: typeof result === 'string' ? result.trim()
\*                                         : String(result ?? '').trim()
FinalResult(result) ==
  IF result.type = "string" THEN Trim(result.s)
  ELSE IF result.type \in {"null", "undefined"} THEN Trim(<<>>)
  ELSE Trim(ToStr(result))

\* a generateSceneLine that passes the stored instructions on as they are
SceneChangeInstructionsAsStored(v, settings) ==
  settings.sceneChangeInstructions

\* const sceneChangeInstructions =
\*   settings.sceneChangeInstructions || DEFAULT_SETTINGS.sceneChangeInstructions
SceneChangeInstructions(v, settings) ==
  IF Truthy(JsStr(settings.sceneChangeInstructions))
  THEN settings.sceneChangeInstructions
  ELSE DEFAULT_SETTINGS(v).sceneChangeInstructions

\* a template with the notes line before the style line
PromptTemplateNotesFirst(v, sceneChangeInstructions, instruction, style) ==
  IF v = VariantUngated
  THEN sceneChangeInstructions
  ELSE <<"[OOC Scene Direction]", "\n">>
       \o sceneChangeInstructions \o <<"\n">>
       \o (IF instruction # <<>> THEN <<"Scene notes: ">> \o instruction
           ELSE <<>>)
       \o <<"\n">>
       \o (IF Truthy(style) THEN <<"Style hint: ">> \o style.s ELSE <<>>)
       \o <<"\n",
            "Return only the character's spoken or internal line (no extra narrative).">>

\* the template literal handed to substituteParams
PromptTemplate(v, sceneChangeInstructions, instruction, style) ==
  IF v = VariantUngated
  THEN sceneChangeInstructions
  ELSE <<"[OOC Scene Direction]", "\n">>
       \o sceneChangeInstructions \o <<"\n">>
       \o (IF Truthy(style) THEN <<"Style hint: ">> \o style.s ELSE <<>>)
       \o <<"\n">>
       \o (IF instruction # <<>> THEN <<"Scene notes: ">> \o instruction
           ELSE <<>>)
       \o <<"\n",
            "Return only the character's spoken or internal line (no extra narrative).">>

\* the name the host substitutes for {{user}}
UserName == <<"You">>

\* ctx.substituteParams: the host replaces the {{char}} and {{user}} macros
RECURSIVE substituteParams(_, _)
substituteParams(text, charName) ==
  IF text = <<>> THEN <<>>
  ELSE (CASE Head(text) = "{{char}}" -> charName
          [] Head(text) = "{{user}}" -> UserName
          [] OTHER -> <<Head(text)>>)
       \o substituteParams(Tail(text), charName)

\* ------------------------------------------------------------- outcomes
NoOutcome == [kind |-> "none", text |-> <<>>]
Returned(text) == [kind |-> "returned", text |-> text]
Escaped(msg) == [kind |-> "thrown", text |-> msg]

\* a callback without its catch: the error leaves the entry point
CommandCatchMissing(msg) == Escaped(msg)

\* the catch of sceneTransitionCallback: return `Error: ${error.message}`
CommandCatch(msg) == Returned(ErrorPrefix \o msg)

\* a catch of insertAssistantMessage that reports and does not rethrow
InsertCatchSwallows(msg) == Returned(SceneLineInserted)

\* the catch of insertAssistantMessage reports and rethrows; the rethrown
\* error reaches the catch of sceneTransitionCallback
InsertCatch(msg) == CommandCatch(msg)

\* a trigger whose error reaches the catch of sceneTransitionCallback
TriggerCatchMissing(msg) == CommandCatch(msg)

\* the catch around generateBackgroundImage() discards the error; the
\* callback goes on to return "Scene line inserted."
TriggerCatch(msg) == Returned(SceneLineInserted)

\* a callback that inserts whatever line it got
LineIsEmptyUnchecked(line) == FALSE

\* if (line): the empty string is the only falsy line
LineIsEmpty(line) == ~Truthy(JsStr(line))

\* buildAssistantMessage
\* a buildAssistantMessage that names the message after the user
buildAssistantMessageAsUser(text, charName) ==
  [is_user |-> FALSE, name |-> UserName, mes |-> text]

\* buildAssistantMessage({ text }); charName is
\* ctx.characters?.[ctx.characterId]?.name of the context read in the call
buildAssistantMessage(text, charName) ==
  [is_user |-> FALSE, name |-> charName, mes |-> text]

\* ------------------------------------------------------------ the state
\* an invocation of sceneTransitionCallback that has not started
IdleInv ==
  [pc |-> "idle",
   background |-> JsUndef,   \* named.background
   unnamed |-> JsUndef,      \* the unnamed argument
   styleArg |-> JsUndef,     \* named.style
   style |-> JsUndef,        \* const style
   instruction |-> <<>>,     \* const instruction
   generateBg |-> JsUndef,   \* const generateBg
   genFail |-> "none",       \* "none", "unavailable" or "threw"
   genMsg |-> <<>>,          \* the message of the error generation caught
   instructions |-> <<>>,    \* const sceneChangeInstructions
   prompt |-> <<>>,          \* const quietPrompt, once it is dispatched
   result |-> JsUndef,       \* const result, while generateSceneLine has it
   line |-> <<>>,            \* const line
   startNo |-> 0,            \* the how-manyth invocation of the run this is
   readyNo |-> 0,            \* when generateSceneLine settled, among the
                             \* invocations in flight
   msgId |-> -1,             \* const msgId, once the message is appended
   calls |-> <<>>,           \* the collaborator calls made so far, in order
   settled |-> <<>>,         \* the awaited calls that have returned, in order
   failedStep |-> "",        \* the step whose error reached the outer catch
   failMsg |-> <<>>,         \* the message of that error
   inserted |-> FALSE,       \* insertAssistantMessage has returned
   byButton |-> FALSE,       \* the button handler made the call
   should |-> JsUndef,       \* shouldGenerateBackground, once decided
   decided |-> FALSE,        \* the trigger decision has been evaluated
   bgThrew |-> FALSE,        \* the background trigger threw
   bgMsg |-> <<>>,           \* the message of the error it threw
   outcome |-> NoOutcome]    \* what the callback returned

InitialChat == <<[is_user |-> TRUE, name |-> UserName, mes |-> <<"Hi.">>]>>

Init ==
  /\ variant \in Variants
  /\ hasQuietPrompt \in BOOLEAN
  /\ stored \in StoredBlobs
  \* only the gated variant reads the sd record
  /\ sd \in IF variant = VariantGated THEN SdRecords ELSE {NoSdRecord}
  /\ flushes = 0
  /\ flushed = NoRecord
  /\ ready = FALSE
  /\ activeChar \in CharNames
  /\ chat = InitialChat
  /\ inv = [i \in Slots |-> IdleInv]
  /\ started = 0
  /\ overlap = FALSE
  /\ opLog = <<>>
  /\ lastRead = EmptyObject
  /\ request = NoRequest
  /\ dispatch = NoDispatch
  /\ buttonDisabled = FALSE
  /\ dom = HostDom
  /\ probeHost = NoProbeHost
  /\ probeResult = JsUndef

Finish(r, outcome) == [r EXCEPT !.pc = "done", !.outcome = outcome]

\* an error reaches the catch of sceneTransitionCallback from `step`
Fail(r, step, msg, outcome) ==
  [Finish(r, outcome) EXCEPT !.failedStep = step, !.failMsg = msg]

\* a continuation is queued when its promise settles and the queue is first
\* in, first out: the invocation whose generateSceneLine settles now resumes
\* after those in flight that settled before
NextReady ==
  1 + CHOOSE n \in {inv[j].readyNo : j \in Slots} :
        \A j \in Slots : inv[j].readyNo <= n

\* generateSceneLine returns a fallback message instead of raising
Fallback(r, kind, msg, text) ==
  [r EXCEPT !.pc = "gotLine", !.genFail = kind, !.genMsg = msg, !.line = text,
            !.readyNo = NextReady]

\* the invocation calls the collaborator `op`
Called(r, op) == [r EXCEPT !.calls = Append(@, op)]

\* the awaited call `op` has returned
Settled(r, op) == [r EXCEPT !.settled = Append(@, op)]

\* saveSettings(settings): the record is assigned under the key, then one
\* flush is requested; initializeSettings does the same two steps inline
saveSettings(settings) ==
  /\ stored' = SavedRecord(settings)
  /\ flushed' = KeyAtFlush(stored, settings)
  /\ flushes' = flushes + 1

\* initializeSettings, called from onReady
initializeSettings ==
  IF NeedsInitialRecord(stored)
  THEN saveSettings(DEFAULT_SETTINGS(variant))
  ELSE UNCHANGED <<stored, flushes, flushed>>

\* onReady: settings are initialized, then the command and the button exist
OnReady ==
  /\ ~ready
  /\ ready' = TRUE
  /\ initializeSettings
  /\ dom' = createSettingsUI(dom)
  /\ UNCHANGED <<hostVars, buttonDisabled, chat, inv, started>>

\* $button.addClass('disabled'): the class is there, however many clicks
\* are under way
ButtonAfterClick(disabled) == TRUE

\* $button.removeClass('disabled'), in the try and in the catch alike
ButtonAfterReturn(disabled) == FALSE

\* sceneTransitionCallback(named, unnamed) up to its first suspension: the
\* arguments are parsed and generateSceneLine runs until it returns a
\* fallback or awaits generateQuietPrompt
Invoke(i, background, ns, viaButton) ==
  /\ ready
  /\ started < MaxInv
  /\ inv[i].pc = "idle"
  /\ \A j \in Slots : j < i => inv[j].pc # "idle"
  /\ overlap \/ \A j \in Slots : inv[j].pc = "idle"
  /\ started' = started + 1
  /\ LET unnamed == ns[1]
         style == ns[2]
         rb == [inv[i] EXCEPT
                  !.byButton = viaButton,
                  !.startNo = started + 1,
                  !.background = background,
                  !.unnamed = unnamed,
                  !.styleArg = style,
                  !.generateBg = ParseBackground(variant, background)]
         \* only the gated variant reads the notes and the style
         r0 == IF variant = VariantUngated THEN rb
               ELSE [rb EXCEPT
                       !.style = ParseStyle(style),
                       !.instruction = ParseInstruction(unnamed)]
         ins == r0.instruction
         sty == r0.style
     IN IF ~hasQuietPrompt
        THEN inv' = [inv EXCEPT ![i] =
                       Fallback(r0, "unavailable", <<>>,
                                UnavailableMessage(variant, ins, sty))]
        ELSE \E sr \in ReadOutcomesNow, sp \in OutcomesNow :
               LET r1 == [r0 EXCEPT !.calls = Append(@, "getSettings")]
                   sci == SceneChangeInstructions(variant,
                            getSettings(variant, stored))
                   r2 == [r1 EXCEPT !.instructions = sci,
                            !.calls = Append(@, "substituteParams")]
               IN inv' = [inv EXCEPT ![i] =
                    IF ~sr.ok
                    THEN Fallback(r1, "threw", sr.msg,
                           ErrorFallbackMessage(variant, ins, sty, sr.msg))
                    ELSE IF ~sp.ok
                    THEN Fallback(r2, "threw", sp.msg,
                           ErrorFallbackMessage(variant, ins, sty, sp.msg))
                    ELSE [r2 EXCEPT !.pc = "awaitGen",
                            !.prompt = substituteParams(
                              PromptTemplate(variant, sci, ins, sty),
                              activeChar),
                            !.calls = Append(@, "generateQuietPrompt")]]
  \* generateSceneLine calls getSettings once it has found generateQuietPrompt
  /\ stored' = IF hasQuietPrompt THEN StoredAfterGet(variant, stored)
                ELSE stored
  /\ UNCHANGED <<hostVars, dom, flushes, flushed, ready, chat>>

\* the slash command: sceneTransitionCallback(named, unnamed) with the
\* arguments of the command line
Start(i) ==
  /\ \E background \in StartBackgrounds, ns \in StartNoteStyles :
       Invoke(i, background, ns, FALSE)
  /\ UNCHANGED buttonDisabled

\* a click on the Change Scene button: the handler marks the button
\* disabled and calls sceneTransitionCallback({}, "")
Click(i) ==
  /\ Invoke(i, JsUndef, <<JsStr(<<>>), JsUndef>>, TRUE)
  /\ buttonDisabled' = ButtonAfterClick(buttonDisabled)

\* generateQuietPrompt settles: its result is normalised, or its error is
\* caught and replaced by the fallback message
GenDone(i) ==
  /\ inv[i].pc = "awaitGen"
  /\ \/ \E result \in ResultsNow :
          inv' = [inv EXCEPT ![i] =
                    [Settled(@, "generateQuietPrompt")
                       EXCEPT !.pc = "gotLine", !.result = result,
                              !.line = FinalResult(result),
                              !.readyNo = NextReady]]
     \/ \E m \in ErrMsgs :
          inv' = [inv EXCEPT ![i] =
                    Fallback(@, "threw", m,
                      ErrorFallbackMessage(variant, @.instruction, @.style, m))]
  /\ UNCHANGED <<hostVars, uiVars, settingsVars, ready, chat, started>>

\* an insertAssistantMessage that emits the rendered event first
InsertSequenceRenderedFirst ==
  <<"chat.push", "emit CHARACTER_MESSAGE_RENDERED", "addOneMessage",
    "emit MESSAGE_RECEIVED", "saveChat">>

\* the collaborator calls of insertAssistantMessage, in program order
InsertSequence ==
  <<"chat.push", "emit MESSAGE_RECEIVED", "addOneMessage",
    "emit CHARACTER_MESSAGE_RENDERED", "saveChat">>

\* a callback that calls generateBackgroundImage twice when the decision
\* says so
DecideTwice(r, settings) ==
  LET should == ShouldGenerateBackground(variant, r.generateBg, settings,
                                         isStableDiffusionAvailable(sd))
      d == [r EXCEPT !.should = should, !.decided = TRUE]
  IN IF Truthy(should)
     THEN {[Called(Called(d, "generateBackgroundImage"),
                   "generateBackgroundImage")
              EXCEPT !.pc = "awaitBg"]}
     ELSE {Finish(d, Returned(SceneLineInserted))}

\* the trigger decision and, when it says so, the call of
\* generateBackgroundImage, which clicks #sd_background
Decide(r, settings) ==
  LET afterProbe == IF variant = VariantGated
                    THEN Called(r, "isStableDiffusionAvailable")
                    ELSE r
      should == ShouldGenerateBackground(variant, r.generateBg, settings,
                                         isStableDiffusionAvailable(sd))
      d == [afterProbe EXCEPT !.should = should, !.decided = TRUE]
  IN IF Truthy(should)
     THEN {[Called(d, "generateBackgroundImage")
              EXCEPT !.pc = "awaitBg", !.bgThrew = ~o.ok, !.bgMsg = o.msg] :
             o \in OutcomesNow}
     ELSE {Finish(d, Returned(SceneLineInserted))}

\* an insertion failure that no catch handles: the callback never returns
InsertFailedHangs(r, step, msg) ==
  {[r EXCEPT !.pc = "failed", !.failedStep = step, !.failMsg = msg]}

\* a callback that goes on to the trigger decision after a failed insertion
InsertFailedContinues(r, step, msg) ==
  Decide([r EXCEPT !.failedStep = step, !.failMsg = msg],
         getSettings(variant, stored))

\* an insertion step threw: insertAssistantMessage rethrows and the catch
\* of the callback ends the invocation
InsertFailed(r, step, msg) == {Fail(r, step, msg, InsertCatch(msg))}

\* a msgId that is the length of the chat after the push
MsgIdIsLength(chatAfterPush) == Len(chatAfterPush)

\* const msgId = chat.length - 1, right after chat.push(msg)
MsgId(chatAfterPush) == Len(chatAfterPush) - 1

\* a generateSceneLine that reads the instruction template again when the
\* generation has settled
ResumedRereads(r) ==
  [r EXCEPT !.result = JsUndef,
            !.instructions =
              SceneChangeInstructions(variant, getSettings(variant, stored))]

\* generateSceneLine has returned: its local result is gone
Resumed(r) == [r EXCEPT !.result = JsUndef]

\* callbacks that resume in the order in which they were called
ResumesInCallOrder(i) ==
  \A j \in Slots :
    inv[j].pc \in {"awaitGen", "gotLine"} => inv[i].startNo <= inv[j].startNo

\* const line = await generateSceneLine(): of the callbacks whose line is
\* ready, the one whose generateSceneLine settled first resumes first
ResumesFirst(i) ==
  \A j \in Slots :
    inv[j].pc = "gotLine" => inv[i].readyNo <= inv[j].readyNo

\* the callback resumes with the line: an empty line ends it, otherwise
\* insertAssistantMessage builds the message, appends it and emits
\* MESSAGE_RECEIVED
ResumeWithLine(i) ==
  /\ inv[i].pc = "gotLine"
  /\ ResumesFirst(i)
  /\ IF LineIsEmpty(inv[i].line)
     THEN /\ inv' = [inv EXCEPT ![i] =
                       Finish(Resumed(@), Returned(NoOutputGenerated))]
          /\ UNCHANGED chat
     ELSE \E push \in OutcomesNow :
            IF ~push.ok
            THEN /\ \E f \in InsertFailed(
                             Called(Resumed(inv[i]), InsertSequence[1]),
                             InsertSequence[1], push.msg) :
                      inv' = [inv EXCEPT ![i] = f]
                 /\ UNCHANGED chat
            ELSE /\ chat' = Append(chat,
                              buildAssistantMessage(inv[i].line, activeChar))
                 /\ inv' = [inv EXCEPT ![i] =
                              [Called(Called(Resumed(@), InsertSequence[1]),
                                      InsertSequence[2])
                                 EXCEPT !.pc = "awaitReceived",
                                        !.msgId = MsgId(chat')]]
  /\ UNCHANGED <<hostVars, uiVars, settingsVars, ready, started>>

\* the MESSAGE_RECEIVED emit settles; then addOneMessage and the
\* CHARACTER_MESSAGE_RENDERED emit
ReceivedDone(i) ==
  /\ inv[i].pc = "awaitReceived"
  /\ \E emit \in OutcomesNow, add \in OutcomesNow :
       LET r == Settled(inv[i], InsertSequence[2])
       IN \E n \in IF ~emit.ok
                   THEN InsertFailed(inv[i], InsertSequence[2], emit.msg)
                   ELSE IF ~add.ok
                   THEN InsertFailed(Called(r, InsertSequence[3]),
                                     InsertSequence[3], add.msg)
                   ELSE {[Called(Called(r, InsertSequence[3]),
                                 InsertSequence[4])
                            EXCEPT !.pc = "awaitRendered"]} :
            inv' = [inv EXCEPT ![i] = n]
  /\ UNCHANGED <<hostVars, uiVars, settingsVars, ready, chat, started>>

\* the CHARACTER_MESSAGE_RENDERED emit settles; then saveChat
RenderedDone(i) ==
  /\ inv[i].pc = "awaitRendered"
  /\ \E emit \in OutcomesNow :
       \E n \in IF ~emit.ok
                THEN InsertFailed(inv[i], InsertSequence[4], emit.msg)
                ELSE {[Called(Settled(inv[i], InsertSequence[4]),
                              InsertSequence[5])
                         EXCEPT !.pc = "awaitSave"]} :
         inv' = [inv EXCEPT ![i] = n]
  /\ UNCHANGED <<hostVars, uiVars, settingsVars, ready, chat, started>>

\* saveChat settles and insertAssistantMessage returns; the callback reads
\* the settings and evaluates the trigger decision
SaveDone(i) ==
  /\ inv[i].pc = "awaitSave"
  /\ \E save \in OutcomesNow, sr \in ReadOutcomesNow :
       IF ~save.ok
       THEN \E f \in InsertFailed(inv[i], InsertSequence[5], save.msg) :
              inv' = [inv EXCEPT ![i] = f]
       ELSE LET r == [Called(Settled(inv[i], InsertSequence[5]),
                             "getSettings")
                        EXCEPT !.inserted = TRUE]
            IN IF ~sr.ok
               THEN inv' = [inv EXCEPT ![i] =
                              Fail(r, "getSettings", sr.msg,
                                   CommandCatch(sr.msg))]
               ELSE \E d \in Decide(r, getSettings(variant, stored)) :
                      inv' = [inv EXCEPT ![i] = d]
  \* the callback calls getSettings when the insertion has succeeded
  /\ stored' = IF inv'[i].inserted THEN StoredAfterGet(variant, stored)
                ELSE stored
  /\ UNCHANGED <<hostVars, uiVars, flushes, flushed, ready, chat, started>>

\* the await of generateBackgroundImage() settles: an error of the trigger is
\* caught and discarded, and the callback returns
BgDone(i) ==
  /\ inv[i].pc = "awaitBg"
  /\ inv' = [inv EXCEPT ![i] =
                IF @.bgThrew THEN Finish(@, TriggerCatch(@.bgMsg))
                ELSE Finish(Settled(@, "generateBackgroundImage"),
                            Returned(SceneLineInserted))]
  /\ UNCHANGED <<hostVars, uiVars, settingsVars, ready, chat, started>>

\* the change handler of the background checkbox
BackgroundToggle(checked) ==
  /\ ready
  /\ flushes < MaxUpdates
  /\ LET currentSettings == getSettings(variant, stored)
     IN saveSettings(WithAutoGenerate(currentSettings, checked))
  /\ UNCHANGED <<hostVars, uiVars, ready, chat, inv, started>>

\* the input handler of the instructions textarea
InstructionsInput(value) ==
  /\ ready
  /\ flushes < MaxUpdates
  /\ LET currentSettings == getSettings(variant, stored)
     IN saveSettings(WithInstructions(currentSettings, value))
  /\ UNCHANGED <<hostVars, uiVars, ready, chat, inv, started>>

\* the command host has the outcome
Return(i) ==
  /\ inv[i].pc = "done"
  /\ ~inv[i].byButton
  /\ inv' = [inv EXCEPT ![i] = IdleInv]
  /\ UNCHANGED <<hostVars, uiVars, settingsVars, ready, chat, started>>

\* the button handler resumes after await sceneTransitionCallback({}, ""):
\* it takes the class 'disabled' off the button
ButtonDone(i) ==
  /\ inv[i].pc = "done"
  /\ inv[i].byButton
  /\ inv' = [inv EXCEPT ![i] = IdleInv]
  /\ buttonDisabled' = ButtonAfterReturn(buttonDisabled)
  /\ UNCHANGED <<hostVars, dom, settingsVars, ready, chat, started>>

Next ==
  \/ OnReady
  \/ \E i \in Slots : Start(i)
  \/ \E i \in Slots : GenDone(i)
  \/ \E i \in Slots : ResumeWithLine(i)
  \/ \E i \in Slots : ReceivedDone(i)
  \/ \E i \in Slots : RenderedDone(i)
  \/ \E i \in Slots : SaveDone(i)
  \/ \E i \in Slots : BgDone(i)
  \/ \E i \in Slots : Return(i)
  \/ \E checked \in BOOLEAN : BackgroundToggle(checked)
  \/ InstructionsInput(ClearedText)

Spec == Init /\ [][Next]_vars

\* ------------------------------------------------ overlapping invocations
\* rapid repeated triggering: a second invocation may start while the first
\* is suspended at one of its awaits
AutoOnBlob ==
  [exists |-> TRUE, has |-> {"autoGenerateBackground"},
   sceneChangeInstructions |-> <<>>, autoGenerateBackground |-> TRUE]

InitOverlap ==
  /\ variant \in Variants
  /\ hasQuietPrompt = TRUE
  /\ stored \in {NoRecord, AutoOnBlob}
  /\ sd = IF variant = VariantGated
          THEN [exists |-> TRUE, source |-> "comfy"] ELSE NoSdRecord
  /\ flushes = 0
  /\ flushed = NoRecord
  /\ ready = FALSE
  /\ activeChar \in CharNames
  /\ chat = InitialChat
  /\ inv = [i \in Slots |-> IdleInv]
  /\ started = 0
  /\ overlap = TRUE
  /\ opLog = <<>>
  /\ lastRead = EmptyObject
  /\ request = NoRequest
  /\ dispatch = NoDispatch
  /\ buttonDisabled = FALSE
  /\ dom = HostDom
  /\ probeHost = NoProbeHost
  /\ probeResult = JsUndef

SpecOverlap == InitOverlap /\ [][Next]_vars

\* ------------------------------- settings updates during an invocation
\* a persisted record with instructions of the user's own and the auto flag
CustomAutoOnBlob ==
  [exists |-> TRUE, has |-> SettingsFields,
   sceneChangeInstructions |-> <<"Cut to the harbour with ", "{{char}}">>,
   autoGenerateBackground |-> TRUE]

InitRace ==
  /\ variant \in Variants
  /\ hasQuietPrompt = TRUE
  /\ stored = CustomAutoOnBlob
  /\ sd = IF variant = VariantGated
          THEN [exists |-> TRUE, source |-> "comfy"] ELSE NoSdRecord
  /\ flushes = 0
  /\ flushed = NoRecord
  /\ ready = FALSE
  /\ activeChar \in CharNames
  /\ chat = InitialChat
  /\ inv = [i \in Slots |-> IdleInv]
  /\ started = 0
  /\ overlap = TRUE
  /\ opLog = <<>>
  /\ lastRead = EmptyObject
  /\ request = NoRequest
  /\ dispatch = NoDispatch
  /\ buttonDisabled = FALSE
  /\ dom = HostDom
  /\ probeHost = NoProbeHost
  /\ probeResult = JsUndef

\* overlapping invocations and updates of the settings panel, from a
\* record whose two options both differ from the defaults
SpecRace == InitRace /\ [][Next]_vars

\* ------------------------------------------- the availability probe alone
\* the sd records the probe may find: none, one without a source, one per
\* recognised source, and two with a source that is not recognised
ProbeSdRecords ==
  {[exists |-> FALSE, source |-> ""], [exists |-> TRUE, source |-> ""]}
  \cup {[exists |-> TRUE, source |-> src] :
          src \in validSources \cup {"bogus", "Comfy"}}

\* the hosts the probe may run in
ProbeHosts ==
  [throws : BOOLEAN, hasExtensionSettings : BOOLEAN, sd : ProbeSdRecords]

\* a probe whose errors reach the caller
ProbeUncaught(h) ==
  IF h.throws THEN "throws"
  ELSE IF ~h.hasExtensionSettings THEN "false"
  ELSE IF isStableDiffusionAvailable(h.sd) THEN "true" ELSE "false"

\* isStableDiffusionAvailable() as a whole: what the call gives in host h,
\* "true", "false" or "throws"; the catch turns every error into false
Probe(h) ==
  IF h.throws THEN "false"
  ELSE IF ~h.hasExtensionSettings THEN "false"
  ELSE IF isStableDiffusionAvailable(h.sd) THEN "true" ELSE "false"

InitProbe ==
  /\ variant = VariantGated
  /\ hasQuietPrompt = TRUE
  /\ stored = NoRecord
  /\ sd = NoSdRecord
  /\ flushes = 0
  /\ flushed = NoRecord
  /\ ready = TRUE
  /\ activeChar \in CharNames
  /\ chat = InitialChat
  /\ inv = [i \in Slots |-> IdleInv]
  /\ started = 0
  /\ overlap = FALSE
  /\ opLog = <<>>
  /\ lastRead = EmptyObject
  /\ request = NoRequest
  /\ dispatch = NoDispatch
  /\ buttonDisabled = FALSE
  /\ dom = HostDom
  /\ probeHost \in ProbeHosts
  /\ probeResult = JsUndef

\* isStableDiffusionAvailable()
CallProbe ==
  /\ probeResult = JsUndef
  /\ probeResult' = JsStr(<<Probe(probeHost)>>)
  /\ UNCHANGED <<variant, hasQuietPrompt, sd, activeChar, overlap, opLog,
                 lastRead, request, dispatch, probeHost, uiVars, settingsVars,
                 ready, chat, inv, started>>

NextProbe == CallProbe

SpecProbe == InitProbe /\ [][NextProbe]_vars

\* ----------------------------------------------- the Change Scene button
\* clicks on the button, which nothing keeps from overlapping
NextButton ==
  \/ OnReady
  \/ \E i \in Slots : Click(i)
  \/ \E i \in Slots : GenDone(i)
  \/ \E i \in Slots : ResumeWithLine(i)
  \/ \E i \in Slots : ReceivedDone(i)
  \/ \E i \in Slots : RenderedDone(i)
  \/ \E i \in Slots : SaveDone(i)
  \/ \E i \in Slots : BgDone(i)
  \/ \E i \in Slots : ButtonDone(i)

SpecButton == InitOverlap /\ [][NextButton]_vars

\* ------------------------------------------- a change of the open character
\* the user opens another character: ctx.characterId points at it from now
\* on, for the invocations under way too
SwitchCharacter ==
  /\ ready
  /\ activeChar \in CharNames
  /\ activeChar' \in OtherCharNames
  /\ UNCHANGED <<variant, hasQuietPrompt, sd, overlap, directVars, uiVars,
                 settingsVars, ready, chat, inv, started>>

\* the invocations and the change of character; the settings panel is left
\* alone
NextSwitch ==
  \/ OnReady
  \/ \E i \in Slots : Start(i)
  \/ \E i \in Slots : GenDone(i)
  \/ \E i \in Slots : ResumeWithLine(i)
  \/ \E i \in Slots : ReceivedDone(i)
  \/ \E i \in Slots : RenderedDone(i)
  \/ \E i \in Slots : SaveDone(i)
  \/ \E i \in Slots : BgDone(i)
  \/ \E i \in Slots : Return(i)
  \/ SwitchCharacter

\* overlapping invocations during which the open character may change
SpecSwitch == InitOverlap /\ [][NextSwitch]_vars

\* ------------------------------------------- the directive on its own
\* the argument parsing of sceneTransitionCallback and generateSceneLine up
\* to its call of generateQuietPrompt, for every request
InitCompose ==
  /\ variant \in Variants
  /\ hasQuietPrompt = TRUE
  /\ stored \in StoredBlobs
  /\ sd = NoSdRecord
  /\ flushes = 0
  /\ flushed = NoRecord
  /\ ready = TRUE
  /\ activeChar \in CharNames
  /\ chat = InitialChat
  /\ inv = [i \in Slots |-> IdleInv]
  /\ started = 0
  /\ overlap = FALSE
  /\ opLog = <<>>
  /\ lastRead = EmptyObject
  /\ request \in Requests
  /\ dispatch = NoDispatch
  /\ buttonDisabled = FALSE
  /\ dom = HostDom
  /\ probeHost = NoProbeHost
  /\ probeResult = JsUndef

Compose ==
  /\ ~dispatch.sent
  /\ LET instruction == ParseInstruction(request.unnamed)
         style == ParseStyle(request.style)
         max == ParseMax(request.max)
         sceneChangeInstructions ==
           SceneChangeInstructions(variant, getSettings(variant, stored))
     IN dispatch' =
          [sent |-> TRUE,
           quietPrompt |->
             substituteParams(
               PromptTemplate(variant, sceneChangeInstructions,
                              IF variant = VariantGated THEN instruction
                              ELSE <<>>,
                              IF variant = VariantGated THEN style
                              ELSE JsUndef),
               activeChar),
           quietToLoud |-> TRUE,
           maxTokens |-> MaxTokens(variant, max)]
  /\ UNCHANGED <<variant, hasQuietPrompt, sd, activeChar, overlap, opLog,
                 lastRead, request, probeHost, probeResult, uiVars,
                 settingsVars, ready, chat, inv, started>>

NextCompose == Compose

SpecCompose == InitCompose /\ [][NextCompose]_vars

\* --------------------------------------- the settings functions on their own
\* the settings functions called directly, from any persisted blob and in
\* any of the three versions of the code
InitSettings ==
  /\ variant \in SettingsVariants
  /\ hasQuietPrompt = TRUE
  /\ stored \in StoredBlobs
  /\ sd = NoSdRecord
  /\ flushes = 0
  /\ flushed = NoRecord
  /\ ready = FALSE
  /\ activeChar \in CharNames
  /\ chat = InitialChat
  /\ inv = [i \in Slots |-> IdleInv]
  /\ started = 0
  /\ overlap = FALSE
  /\ opLog = <<>>
  /\ lastRead = EmptyObject
  /\ request = NoRequest
  /\ dispatch = NoDispatch
  /\ buttonDisabled = FALSE
  /\ dom \in Doms
  /\ probeHost = NoProbeHost
  /\ probeResult = JsUndef

settingsFrame == <<variant, hasQuietPrompt, sd, activeChar, overlap, ready,
                   chat, inv, started, request, dispatch, probeHost,
                   probeResult, buttonDisabled>>

\* getSettings()
CallGetSettings ==
  /\ Len(opLog) < MaxSettingsOps
  /\ opLog' = Append(opLog, "getSettings")
  /\ lastRead' = getSettings(variant, stored)
  /\ stored' = StoredAfterGet(variant, stored)
  /\ UNCHANGED <<flushes, flushed, settingsFrame, dom>>

\* initializeSettings()
CallInitializeSettings ==
  /\ Len(opLog) < MaxSettingsOps
  /\ opLog' = Append(opLog, "initializeSettings")
  /\ initializeSettings
  /\ UNCHANGED <<lastRead, settingsFrame, dom>>

\* the settings the handlers of the settings panel hand to saveSettings:
\* what getSettings returned with the one option of the handler assigned
HandlerSettings(v, st) ==
  {WithInstructions(getSettings(v, st), value) :
     value \in TextareaValues \cup {DEFAULT_SETTINGS(v).sceneChangeInstructions}}
  \cup {WithAutoGenerate(getSettings(v, st), checked) : checked \in BOOLEAN}

\* saveSettings(settings), as the handlers of the settings panel call it
\* with the settings they read and one option changed: the textarea input,
\* "Reset to Default" and the background checkbox
CallSaveSettings ==
  /\ Len(opLog) < MaxSettingsOps
  /\ opLog' = Append(opLog, "saveSettings")
  /\ \E settings \in HandlerSettings(variant, stored) : saveSettings(settings)
  /\ UNCHANGED <<lastRead, settingsFrame, dom>>

\* createSettingsUI()
CallCreateSettingsUI ==
  /\ Len(opLog) < MaxSettingsOps
  /\ opLog' = Append(opLog, "createSettingsUI")
  /\ dom' = createSettingsUI(dom)
  /\ UNCHANGED <<lastRead, settingsVars, settingsFrame>>

NextSettings ==
  \/ CallGetSettings
  \/ CallInitializeSettings
  \/ CallSaveSettings
  \/ CallCreateSettingsUI

SpecSettings == InitSettings /\ [][NextSettings]_vars

\* ===================================================== the claims, C1..C10
InsertSteps ==
  {"chat.push", "emit MESSAGE_RECEIVED", "addOneMessage",
   "emit CHARACTER_MESSAGE_RENDERED", "saveChat"}

\* the collaborator calls an invocation makes once it has a non-empty line
AfterLineCalls ==
  InsertSteps \cup
    {"getSettings", "isStableDiffusionAvailable", "generateBackgroundImage"}

CallSet(r) == {r.calls[k] : k \in 1..Len(r.calls)}

\* the messages of the errors the collaborators of this model throw
ThrownMsgs == ErrMsgs \cup {SettingsReadError}

\* r's own message is in the chat, where r appended it
OwnMessageInChat(r) ==
  /\ r.msgId >= 0
  /\ r.msgId + 1 <= Len(chat)
  /\ chat[r.msgId + 1].mes = r.line

Fired(r) == "generateBackgroundImage" \in CallSet(r)

\* C1: every invocation that has returned gave exactly one of "Scene line
\* inserted.", "No output generated." and "Error: <message>", and no error
\* left the entry point, whichever collaborator threw; before it returns an
\* invocation has no outcome.
C1_OutcomeIsOneOfThree ==
  \A i \in Slots :
    /\ inv[i].outcome.kind # "thrown"
    /\ inv[i].pc # "done" => inv[i].outcome = NoOutcome
    /\ inv[i].pc = "done" =>
         /\ inv[i].outcome.kind = "returned"
         /\ \/ inv[i].outcome.text = SceneLineInserted
            \/ inv[i].outcome.text = NoOutputGenerated
            \/ \E m \in ThrownMsgs : inv[i].outcome.text = ErrorPrefix \o m

\* an invocation returned "Error: ..." after a collaborator threw
C1_Witness ==
  \E i \in Slots :
    /\ inv[i].pc = "done"
    /\ inv[i].failedStep \in InsertSteps \cup {"getSettings"}
    /\ inv[i].genFail = "threw"
    /\ inv[i].outcome = Returned(ErrorPrefix \o inv[i].failMsg)

\* C2: the step an invocation takes with an empty line ends it with "No
\* output generated.", leaves the chat as it is and makes no collaborator
\* call (no append, no event, no saveChat, no background trigger), whatever
\* the background override and the auto flag are.
C2_EmptyLineDoesNothing ==
  [][\A i \in Slots :
       (inv[i].pc = "gotLine" /\ inv[i].line = <<>> /\ inv'[i] # inv[i]) =>
         /\ inv'[i].pc = "done"
         /\ inv'[i].outcome = Returned(NoOutputGenerated)
         /\ chat' = chat
         /\ inv'[i].calls = inv[i].calls
         /\ CallSet(inv[i]) \cap AfterLineCalls \subseteq {"getSettings"}
         /\ inv'[i].msgId = -1]_vars

\* an empty line ended an invocation whose override asked for a background
\* while the auto flag is on
C2_Witness ==
  \E i \in Slots :
    /\ inv[i].pc = "done"
    /\ inv[i].line = <<>>
    /\ inv[i].outcome = Returned(NoOutputGenerated)
    /\ Truthy(inv[i].generateBg)
    /\ getSettings(variant, stored).autoGenerateBackground
    /\ Len(chat) = Len(InitialChat)

\* C3 (as claimed): an invocation with a non-empty line whose insertion
\* steps all succeeded has appended exactly one message, with mes equal to
\* the line, and returns "Scene line inserted.".
C3_AsClaimed ==
  \A i \in Slots :
    (inv[i].pc = "done" /\ inv[i].line # <<>> /\ inv[i].inserted) =>
      /\ OwnMessageInChat(inv[i])
      /\ Cardinality({k \in 1..Len(inv[i].calls) :
                        inv[i].calls[k] = "chat.push"}) = 1
      /\ inv[i].outcome = Returned(SceneLineInserted)

\* C4 (as claimed): whenever generateSceneLine caught an error with message
\* m thrown by placeholder substitution or by the generation backend, no
\* error leaves it and the line it returned contains m.
C4_AsClaimed ==
  \A i \in Slots :
    (inv[i].genFail = "threw" /\ "substituteParams" \in CallSet(inv[i])) =>
      /\ inv[i].outcome.kind # "thrown"
      /\ Contains(inv[i].line, inv[i].genMsg)

\* C4 (amended): generateSceneLine never raises; the line it returns after
\* catching an error with message m is, in the ungated variant, the
\* diagnostic text followed by m, and in the gated variant the test message
\* with the instruction and the style, which does not hold m.
C4_FallbackOnError ==
  \A i \in Slots :
    inv[i].genFail = "threw" =>
      /\ inv[i].pc \notin {"idle", "awaitGen"}
      /\ inv[i].outcome.kind # "thrown"
      /\ inv[i].line # <<>>
      /\ variant = VariantUngated =>
           /\ inv[i].line = <<"[DEBUG] Scene transition failed: ">> \o inv[i].genMsg
           /\ Contains(inv[i].line, inv[i].genMsg)
      /\ variant = VariantGated =>
           /\ Contains(inv[i].line, inv[i].instruction)
           /\ Truthy(inv[i].style) => Contains(inv[i].line, inv[i].style.s)
           /\ ~Contains(inv[i].line, inv[i].genMsg)

\* the generation backend threw "boom" and the returned line holds it
C4_Witness ==
  \E i \in Slots :
    /\ inv[i].genFail = "threw"
    /\ "generateQuietPrompt" \in CallSet(inv[i])
    /\ inv[i].genMsg = <<"boom">>
    /\ Contains(inv[i].line, <<"boom">>)

\* the caller's note, when it gave one
CallerNote(r) ==
  IF r.unnamed.type = "string" /\ Trim(r.unnamed.s) # <<>>
  THEN r.unnamed.s ELSE <<>>

\* C5 (as claimed): with the capability absent the returned line embeds the
\* caller's note and style, and the backend is not called.
C5_AsClaimed ==
  \A i \in Slots :
    inv[i].genFail = "unavailable" =>
      /\ Contains(inv[i].line, CallerNote(inv[i]))
      /\ Truthy(inv[i].styleArg) => Contains(inv[i].line, inv[i].styleArg.s)
      /\ "generateQuietPrompt" \notin CallSet(inv[i])

\* C5 (amended): with the capability absent generateSceneLine does not
\* raise and does not call the backend; the gated variant returns the test
\* message, which embeds the caller's note (or the default note) and style,
\* and the ungated variant returns the fixed text "[DEBUG] Scene transition
\* failed", which embeds neither.
C5_FallbackWhenUnavailable ==
  \A i \in Slots :
    inv[i].genFail = "unavailable" =>
      /\ ~hasQuietPrompt
      /\ inv[i].pc \notin {"idle", "awaitGen"}
      /\ inv[i].outcome.kind # "thrown"
      /\ "generateQuietPrompt" \notin CallSet(inv[i])
      /\ variant = VariantGated =>
           /\ StartsWith(inv[i].line, <<"[DEBUG] Scene transition test - ">>)
           /\ Contains(inv[i].line, CallerNote(inv[i]))
           /\ CallerNote(inv[i]) = <<>> => Contains(inv[i].line, DefaultNote)
           /\ Truthy(inv[i].styleArg) =>
                Contains(inv[i].line, inv[i].styleArg.s)
      /\ variant = VariantUngated =>
           inv[i].line = <<"[DEBUG] Scene transition failed">>

\* the gated variant, without the capability, returned a line with the
\* caller's note and style
C5_Witness ==
  \E i \in Slots :
    /\ variant = VariantGated
    /\ inv[i].genFail = "unavailable"
    /\ CallerNote(inv[i]) # <<>>
    /\ Truthy(inv[i].styleArg)
    /\ Contains(inv[i].line, CallerNote(inv[i]))
    /\ Contains(inv[i].line, inv[i].styleArg.s)

\* C6 (as claimed): after a generation failure the placeholder is inserted
\* as a message, and when the insertion succeeds the outcome is "Scene line
\* inserted."; a generation failure never gives "No output generated.".
C6_AsClaimed ==
  \A i \in Slots :
    (inv[i].pc = "done" /\ inv[i].genFail # "none") =>
      /\ inv[i].line # <<>>
      /\ inv[i].outcome # Returned(NoOutputGenerated)
      /\ inv[i].inserted =>
           /\ OwnMessageInChat(inv[i])
           /\ inv[i].outcome = Returned(SceneLineInserted)

\* C7: when an insertion step throws, the invocation returns "Error: " and
\* the message of that error, the failing step is the last collaborator call
\* it made, and the background trigger is not invoked, whatever the override
\* and the auto flag are.
C7_InsertionFailureIsFatal ==
  \A i \in Slots :
    inv[i].failedStep \in InsertSteps =>
      /\ inv[i].pc = "done"
      /\ inv[i].outcome = Returned(ErrorPrefix \o inv[i].failMsg)
      /\ inv[i].calls[Len(inv[i].calls)] = inv[i].failedStep
      /\ ~inv[i].inserted
      /\ ~inv[i].decided
      /\ ~Fired(inv[i])

\* saveChat threw in an invocation whose override asked for a background
C7_Witness ==
  \E i \in Slots :
    /\ inv[i].failedStep = "saveChat"
    /\ inv[i].generateBg = JsBool(TRUE)
    /\ inv[i].outcome = Returned(ErrorPrefix \o <<"boom">>)

\* C8: when the background trigger throws, the invocation still returns
\* "Scene line inserted." and its message is in the chat.
C8_TriggerFailureIsDiscarded ==
  \A i \in Slots :
    inv[i].bgThrew =>
      /\ inv[i].inserted
      /\ OwnMessageInChat(inv[i])
      /\ inv[i].outcome.kind # "thrown"
      /\ inv[i].pc = "done" => inv[i].outcome = Returned(SceneLineInserted)

\* the trigger threw and the invocation returned
C8_Witness ==
  \E i \in Slots :
    /\ inv[i].pc = "done"
    /\ inv[i].bgThrew
    /\ Fired(inv[i])

\* C9: when the explicit flag generateBg is defined, the trigger decision is
\* that flag, whatever the auto flag and the availability of the image
\* backend are: the trigger is invoked for true and not invoked for false.
C9_ExplicitFlagWins ==
  \A i \in Slots :
    (inv[i].decided /\ inv[i].generateBg.type # "undefined") =>
      /\ inv[i].should = inv[i].generateBg
      /\ Fired(inv[i]) <=> Truthy(inv[i].generateBg)
      /\ inv[i].generateBg = JsBool(TRUE) => Fired(inv[i])
      /\ inv[i].generateBg = JsBool(FALSE) => ~Fired(inv[i])

\* an explicit true fired the trigger although the auto flag is off
C9_Witness ==
  \E i \in Slots :
    /\ inv[i].pc = "done"
    /\ inv[i].generateBg = JsBool(TRUE)
    /\ ~getSettings(variant, stored).autoGenerateBackground
    /\ ~isStableDiffusionAvailable(sd)
    /\ Fired(inv[i])

\* C10 (as claimed): the text "false" as background argument keeps the
\* trigger from firing and the text "true" fires it, whatever the auto flag
\* is.
C10_AsClaimed ==
  \A i \in Slots :
    inv[i].decided =>
      /\ inv[i].background = JsStr(<<"false">>) => ~Fired(inv[i])
      /\ inv[i].background = JsStr(<<"true">>) => Fired(inv[i])

\* ==================================================== the claims, C11..C20
\* the auto flag as the persisted record holds it (absent counts as off)
PersistedAuto ==
  /\ stored.exists
  /\ "autoGenerateBackground" \in stored.has
  /\ stored.autoGenerateBackground

BackendConfigured == sd.exists /\ sd.source # "" /\ sd.source \in validSources

\* C12: in the gated variant, the step that completes the insertion of an
\* invocation whose explicit flag is unset invokes the trigger exactly when
\* the settings read returns, the persisted auto flag is true and the
\* availability probe answers true.
C12_PolicyA ==
  [][\A i \in Slots :
       (/\ variant = VariantGated
        /\ inv[i].pc = "awaitSave"
        /\ inv'[i].inserted
        /\ inv[i].generateBg.type = "undefined") =>
         /\ Fired(inv'[i]) <=>
              (inv'[i].decided /\ PersistedAuto /\ BackendConfigured)
         /\ inv'[i].decided =>
              /\ inv'[i].should = JsBool(PersistedAuto /\ BackendConfigured)
              /\ "isStableDiffusionAvailable" \in CallSet(inv'[i])]_vars

\* the gated variant fired the trigger on the auto flag and the probe
C12_Witness ==
  \E i \in Slots :
    /\ variant = VariantGated
    /\ inv[i].generateBg.type = "undefined"
    /\ inv[i].pc = "done"
    /\ inv[i].inserted
    /\ BackendConfigured
    /\ Fired(inv[i])

\* C13 (as claimed): an invocation whose explicit flag is defined does not
\* evaluate the availability probe.
C13_AsClaimed ==
  \A i \in Slots :
    inv[i].generateBg.type # "undefined" =>
      "isStableDiffusionAvailable" \notin CallSet(inv[i])

\* the settings function SpecSettings called last
LastOp == IF opLog = <<>> THEN "none" ELSE opLog[Len(opLog)]

\* the persisted record holds the field
PersistedHas(f) == stored.exists /\ f \in stored.has

\* C14 (as claimed): what getSettings returned holds both recognized
\* options, each with its persisted value when the record has it and with
\* its default otherwise, for every persisted blob.
C14_AsClaimed ==
  LastOp = "getSettings" =>
    /\ lastRead.has = SettingsFields
    /\ lastRead.sceneChangeInstructions =
         IF PersistedHas("sceneChangeInstructions")
         THEN stored.sceneChangeInstructions
         ELSE DefaultInstructionsText(variant)
    /\ lastRead.autoGenerateBackground =
         IF PersistedHas("autoGenerateBackground")
         THEN stored.autoGenerateBackground
         ELSE FALSE

\* C14 (amended): in the ungated and the gated variant getSettings returns
\* both recognized options for every persisted blob, a persisted field with
\* its persisted value and an absent one with its default; the legacy
\* getSettings returns the fields of the persisted record and no others, an
\* object without fields when there is no record.
C14_DefaultFilling ==
  LastOp = "getSettings" =>
    /\ variant \in Variants =>
         /\ lastRead.has = SettingsFields
         /\ lastRead.sceneChangeInstructions =
              IF PersistedHas("sceneChangeInstructions")
              THEN stored.sceneChangeInstructions
              ELSE DefaultInstructionsText(variant)
         /\ lastRead.autoGenerateBackground =
              IF PersistedHas("autoGenerateBackground")
              THEN stored.autoGenerateBackground
              ELSE FALSE
    /\ variant = VariantLegacy =>
         /\ lastRead.has = IF stored.exists THEN stored.has ELSE {}
         /\ "sceneChangeInstructions" \in lastRead.has =>
              lastRead.sceneChangeInstructions = stored.sceneChangeInstructions
         /\ "autoGenerateBackground" \in lastRead.has =>
              lastRead.autoGenerateBackground = stored.autoGenerateBackground

\* getSettings filled the instructions of a record that holds the auto flag
\* alone, and kept the flag
C14_Witness ==
  /\ variant \in Variants
  /\ LastOp = "getSettings"
  /\ stored.exists
  /\ stored.has = {"autoGenerateBackground"}
  /\ lastRead.has = SettingsFields
  /\ lastRead.sceneChangeInstructions = DefaultInstructionsText(variant)
  /\ lastRead.autoGenerateBackground

\* C15: a call of getSettings leaves the record under the settings key, its
\* absence included, as it was, and requests no flush.
C15_ReadLeavesStore ==
  [][opLog' = Append(opLog, "getSettings") =>
       /\ stored' = stored
       /\ flushes' = flushes]_vars

\* getSettings was called with no record under the key, and there is none
\* and no flush after it
C15_Witness ==
  /\ opLog = <<"getSettings">>
  /\ ~stored.exists
  /\ flushes = 0
  /\ lastRead # EmptyObject

\* C16: a call of initializeSettings that follows another one changes
\* neither the persisted record nor the number of flushes requested.
C16_InitializeIdempotent ==
  [][(LastOp = "initializeSettings"
      /\ opLog' = Append(opLog, "initializeSettings")) =>
       /\ stored' = stored
       /\ flushes' = flushes]_vars

\* initializeSettings ran twice from an empty store: one record, one flush
C16_Witness ==
  /\ opLog = <<"initializeSettings", "initializeSettings">>
  /\ stored.exists
  /\ flushes = 1

\* C17: a call of initializeSettings writes the defaults (and requests one
\* flush) when no record exists under the key, and leaves an existing
\* record, and the flush count, unchanged whatever fields and values the
\* record holds.
C17_InitializeOnlyIfMissing ==
  [][opLog' = Append(opLog, "initializeSettings") =>
       IF stored.exists
       THEN stored' = stored /\ flushes' = flushes
       ELSE /\ stored'.exists
            /\ stored'.has = (IF variant = VariantLegacy
                              THEN {"sceneChangeInstructions"}
                              ELSE SettingsFields)
            /\ stored'.sceneChangeInstructions =
                 DefaultInstructionsText(variant)
            /\ stored'.autoGenerateBackground = FALSE
            /\ flushes' = flushes + 1]_vars

\* initializeSettings left a record that holds the auto flag alone as it was
C17_Witness ==
  /\ opLog = <<"initializeSettings">>
  /\ stored.exists
  /\ stored.has = {"autoGenerateBackground"}
  /\ stored.autoGenerateBackground
  /\ flushes = 0

\* C18: the step that dispatches a prompt to the generation backend uses
\* the persisted instructions when the record holds a non-empty text and
\* the built-in default when the field is absent, the record is missing or
\* the text is empty; the instructions used are never empty and the prompt
\* dispatched holds them with the macros substituted.
C18_InstructionsNeverEmpty ==
  [][\A i \in Slots :
       (inv[i].pc = "idle" /\ "generateQuietPrompt" \in CallSet(inv'[i])) =>
         /\ inv'[i].instructions # <<>>
         /\ inv'[i].instructions =
              IF /\ PersistedHas("sceneChangeInstructions")
                 /\ stored.sceneChangeInstructions # <<>>
              THEN stored.sceneChangeInstructions
              ELSE DefaultInstructionsText(variant)
         /\ inv'[i].prompt # <<>>
         /\ Contains(inv'[i].prompt,
                     substituteParams(inv'[i].instructions, activeChar))]_vars

\* a prompt was dispatched with the default instructions while the record
\* holds the empty text the cleared textarea left
C18_Witness ==
  \E i \in Slots :
    /\ inv[i].pc = "awaitGen"
    /\ PersistedHas("sceneChangeInstructions")
    /\ stored.sceneChangeInstructions = <<>>
    /\ flushes > 0
    /\ inv[i].instructions = DefaultInstructionsText(variant)
    /\ Contains(inv[i].prompt, activeChar)

IsPrefix(a, b) == Len(a) <= Len(b) /\ SubSeq(b, 1, Len(a)) = a

SettledSet(r) == {r.settled[k] : k \in 1..Len(r.settled)}

\* the insertion calls r has made, in the order it made them
InsertCalls(r) == SelectSeq(r.calls, LAMBDA op : op \in InsertSteps)

\* the positions of op among the calls of r
Positions(r, op) == {k \in 1..Len(r.calls) : r.calls[k] = op}

\* C19: the insertion calls of an invocation are, in order, the append to
\* the chat, the MESSAGE_RECEIVED emit, addOneMessage, the
\* CHARACTER_MESSAGE_RENDERED emit and saveChat, each at most once; the
\* rendered event is emitted only when the received emit has returned, and
\* saveChat is requested only when both emits have returned.
C19_InsertionOrder ==
  \A i \in Slots :
    /\ IsPrefix(InsertCalls(inv[i]),
                <<"chat.push", "emit MESSAGE_RECEIVED", "addOneMessage",
                  "emit CHARACTER_MESSAGE_RENDERED", "saveChat">>)
    /\ "emit MESSAGE_RECEIVED" \in CallSet(inv[i]) =>
         OwnMessageInChat(inv[i])
    /\ "emit CHARACTER_MESSAGE_RENDERED" \in CallSet(inv[i]) =>
         "emit MESSAGE_RECEIVED" \in SettledSet(inv[i])
    /\ "saveChat" \in CallSet(inv[i]) =>
         /\ "emit MESSAGE_RECEIVED" \in SettledSet(inv[i])
         /\ "emit CHARACTER_MESSAGE_RENDERED" \in SettledSet(inv[i])
    /\ inv[i].pc = "awaitReceived" =>
         "emit CHARACTER_MESSAGE_RENDERED" \notin CallSet(inv[i])
    /\ inv[i].pc \in {"awaitReceived", "awaitRendered"} =>
         "saveChat" \notin CallSet(inv[i])

\* an invocation has asked the host to save the chat, after all four
\* earlier steps
C19_Witness ==
  \E i \in Slots :
    /\ inv[i].pc = "awaitSave"
    /\ Len(InsertCalls(inv[i])) = 5
    /\ inv[i].calls[Len(inv[i].calls)] = "saveChat"

\* C20: an invocation starts its insertion only with the line generation
\* gave it, after generateQuietPrompt has settled, and invokes the
\* background trigger only when its insertion, saveChat included, has
\* returned; the trigger call follows every insertion call of the
\* invocation.
C20_CollaboratorOrder ==
  \A i \in Slots :
    /\ "chat.push" \in CallSet(inv[i]) =>
         /\ inv[i].pc \notin {"idle", "awaitGen", "gotLine"}
         /\ inv[i].line # <<>>
         /\ "generateQuietPrompt" \in CallSet(inv[i]) =>
              \/ "generateQuietPrompt" \in SettledSet(inv[i])
              \/ inv[i].genFail = "threw"
         /\ \A g \in Positions(inv[i], "generateQuietPrompt"),
               p \in Positions(inv[i], "chat.push") : g < p
    /\ inv[i].pc \in {"awaitReceived", "awaitRendered", "awaitSave"} =>
         ~Fired(inv[i])
    /\ Fired(inv[i]) =>
         /\ inv[i].inserted
         /\ inv[i].failedStep = ""
         /\ "saveChat" \in SettledSet(inv[i])
         /\ Len(InsertCalls(inv[i])) = 5
         /\ \A t \in Positions(inv[i], "generateBackgroundImage"),
               k \in 1..Len(inv[i].calls) :
              inv[i].calls[k] \in InsertSteps => k < t

\* an invocation generated a line, inserted it and invoked the trigger
C20_Witness ==
  \E i \in Slots :
    /\ "generateQuietPrompt" \in SettledSet(inv[i])
    /\ "saveChat" \in SettledSet(inv[i])
    /\ Fired(inv[i])
    /\ inv[i].pc = "awaitBg"

\* ==================================================== the claims, C21..C30
\* how many times r has called op
CountOf(r, op) == Cardinality(Positions(r, op))

\* C21: no step makes an invocation append to the chat, call the generation
\* backend or call the background trigger a second time; an invocation has
\* an outcome exactly when it has returned, and no later step changes that
\* outcome; a step appends at most one message, in an invocation that had
\* appended none, and adds calls to one invocation only, so at most one
\* trigger call; the chat has grown by at most the number of invocations
\* started.
C21_AtMostOnce ==
  [][/\ \A i \in Slots :
          /\ \A k \in (Len(inv[i].calls) + 1)..Len(inv'[i].calls) :
               inv'[i].calls[k] \in {"chat.push", "generateQuietPrompt",
                                     "generateBackgroundImage"} =>
                 \A l \in 1..(k - 1) : inv'[i].calls[l] # inv'[i].calls[k]
          /\ inv'[i].pc = "done" <=> inv'[i].outcome.kind = "returned"
          /\ inv[i].pc = "done" => inv'[i] \in {inv[i], IdleInv}
     /\ Len(chat') <= Len(chat) + 1
     /\ chat' # chat =>
          \E i \in Slots :
            /\ \A l \in 1..Len(inv[i].calls) : inv[i].calls[l] # "chat.push"
            /\ \E l \in 1..Len(inv'[i].calls) : inv'[i].calls[l] = "chat.push"
            /\ \A j \in Slots \ {i} : inv'[j] = inv[j]
     /\ \A i, j \in Slots :
          (/\ Len(inv'[i].calls) > Len(inv[i].calls)
           /\ Len(inv'[j].calls) > Len(inv[j].calls)) => i = j
     /\ Len(chat') - Len(InitialChat) <= started'
     /\ started' \in {started, started + 1}]_vars

\* the second invocation of a run has returned: it generated, appended and
\* fired once, and the chat holds two messages more
C21_Witness ==
  \E i \in Slots :
    /\ started = 2
    /\ inv[i].pc = "done"
    /\ CountOf(inv[i], "generateQuietPrompt") = 1
    /\ CountOf(inv[i], "chat.push") = 1
    /\ CountOf(inv[i], "generateBackgroundImage") = 1
    /\ Len(chat) = Len(InitialChat) + 2

\* C22: of two invocations in flight that have both appended a message, both
\* messages are in the chat at different indices, each with its own line,
\* and the one whose generation settled first has the lower index, whichever
\* was called first.
C22_OverlapOrder ==
  \A i, j \in Slots :
    (i # j /\ inv[i].msgId >= 0 /\ inv[j].msgId >= 0) =>
      /\ OwnMessageInChat(inv[i])
      /\ OwnMessageInChat(inv[j])
      /\ inv[i].msgId # inv[j].msgId
      /\ inv[i].readyNo # inv[j].readyNo
      /\ inv[i].readyNo < inv[j].readyNo => inv[i].msgId < inv[j].msgId

\* the invocation called second generated first and its message, with a
\* line of its own, is at the lower index
C22_Witness ==
  \E i, j \in Slots :
    /\ inv[i].startNo < inv[j].startNo
    /\ inv[j].readyNo < inv[i].readyNo
    /\ inv[i].msgId >= 0
    /\ inv[j].msgId >= 0
    /\ inv[j].msgId < inv[i].msgId
    /\ inv[i].line # inv[j].line
    /\ inv[i].inserted
    /\ inv[j].inserted

\* l is s without its leading and trailing whitespace
IsTrimOf(l, s) ==
  /\ l # <<>> => (Head(l) \notin Whitespace /\ l[Len(l)] \notin Whitespace)
  /\ \E a \in 0..Len(s) :
       /\ a + Len(l) <= Len(s)
       /\ SubSeq(s, a + 1, a + Len(l)) = l
       /\ \A k \in 1..Len(s) :
            (k <= a \/ k > a + Len(l)) => s[k] \in Whitespace

\* C23: the line a callback resumes with after a generation that returned is
\* the result without leading and trailing whitespace when the result is a
\* string, the empty string when it is null or undefined, and its decimal
\* text when it is a number; with an empty line the step returns "No output
\* generated." and appends nothing, with any other line it appends the line.
C23_Normalized ==
  [][\A i \in Slots :
       (inv[i].pc = "gotLine" /\ inv[i].genFail = "none"
        /\ inv'[i] # inv[i]) =>
         LET res == inv[i].result
             l == inv[i].line
         IN /\ res.type = "string" => IsTrimOf(l, res.s)
            /\ res.type \in {"null", "undefined"} => l = <<>>
            /\ res.type = "number" => l = <<ToString(res.n)>>
            /\ l = <<>> =>
                 /\ inv'[i].outcome = Returned(NoOutputGenerated)
                 /\ chat' = chat
                 /\ inv'[i].msgId = -1
            /\ l # <<>> =>
                 /\ Len(chat') = Len(chat) + 1
                 /\ chat'[Len(chat')].mes = l]_vars

\* the backend returned blank text and the line is empty
C23_Witness ==
  \E i \in Slots :
    /\ inv[i].pc = "gotLine"
    /\ inv[i].genFail = "none"
    /\ inv[i].result = JsStr(<<" ", "\n">>)
    /\ inv[i].line = <<>>

\* the note of the request when it is a text that is not blank, the generic
\* note otherwise
NoteOf(req) ==
  IF req.unnamed.type = "string"
     /\ \E k \in 1..Len(req.unnamed.s) : req.unnamed.s[k] \notin Whitespace
  THEN req.unnamed.s
  ELSE <<"Allow the character to transition to a new scene that makes sense.">>

\* the request gives a style: a text that is not empty
HasStyle(req) == req.style.type = "string" /\ req.style.s # <<>>

\* C24: the directive the gated variant composes holds the line "Style
\* hint: " and the style exactly when the request gives a style that is not
\* empty, and always holds a line "Scene notes: " followed by a note that is
\* not empty: the note of the request, or the generic note when that is
\* missing, empty, blank or not a text.
C24_StyleAndNotes ==
  (dispatch.sent /\ variant = VariantGated) =>
    /\ HasStyle(request) <=> Contains(dispatch.quietPrompt, <<"Style hint: ">>)
    /\ HasStyle(request) =>
         Contains(dispatch.quietPrompt,
                  <<"\n", "Style hint: ">> \o request.style.s \o <<"\n">>)
    /\ NoteOf(request) # <<>>
    /\ Contains(dispatch.quietPrompt,
                <<"\n", "Scene notes: ">> \o NoteOf(request) \o <<"\n">>)

\* a directive composed for a blank note and the style "noir"
C24_Witness ==
  /\ dispatch.sent
  /\ variant = VariantGated
  /\ request.unnamed = JsStr(<<" ", "\n">>)
  /\ request.style = JsStr(<<"noir">>)
  /\ Contains(dispatch.quietPrompt, <<"Style hint: ", "noir">>)
  /\ Contains(dispatch.quietPrompt, <<"Scene notes: ">>)

\* the instructions the directive is composed with, macros substituted
InstructionsSent ==
  substituteParams(
    IF PersistedHas("sceneChangeInstructions")
       /\ stored.sceneChangeInstructions # <<>>
    THEN stored.sceneChangeInstructions
    ELSE DefaultInstructionsText(variant),
    activeChar)

\* the sections of the gated directive, in order
SectionsInOrder ==
  <<"[OOC Scene Direction]", "\n">> \o InstructionsSent \o <<"\n">>
  \o (IF HasStyle(request) THEN <<"Style hint: ">> \o request.style.s
      ELSE <<>>)
  \o <<"\n", "Scene notes: ">> \o NoteOf(request)
  \o <<"\n",
       "Return only the character's spoken or internal line (no extra narrative).">>

\* C25 (as claimed): every directive sent to the backend is the marker, the
\* instructions, the optional style line, the notes line and the trailing
\* constraint, in this order.
C25_AsClaimed ==
  dispatch.sent =>
    /\ dispatch.quietPrompt = SectionsInOrder
    /\ Head(dispatch.quietPrompt) = "[OOC Scene Direction]"

\* C25 (amended): the gated variant sends the marker, the instructions, the
\* optional style line, the notes line and the trailing constraint, in this
\* order; the ungated variant sends the instructions alone, without marker,
\* style line, notes line or trailing constraint.
C25_SectionOrder ==
  dispatch.sent =>
    /\ variant = VariantGated =>
         /\ dispatch.quietPrompt = SectionsInOrder
         /\ Head(dispatch.quietPrompt) = "[OOC Scene Direction]"
         /\ dispatch.quietPrompt[Len(dispatch.quietPrompt)] =
              "Return only the character's spoken or internal line (no extra narrative)."
    /\ variant = VariantUngated =>
         /\ dispatch.quietPrompt = InstructionsSent
         /\ ~Contains(dispatch.quietPrompt, <<"[OOC Scene Direction]">>)
         /\ ~Contains(dispatch.quietPrompt, <<"Scene notes: ">>)

\* a gated directive with all five sections
C25_Witness ==
  /\ dispatch.sent
  /\ variant = VariantGated
  /\ HasStyle(request)
  /\ request.unnamed = JsStr(<<"The rain picks up.">>)
  /\ dispatch.quietPrompt = SectionsInOrder

\* C26 (as claimed): the budget handed to the backend is the max of the
\* request when it gives one, a 0 included, and 120 when it gives none.
C26_AsClaimed ==
  dispatch.sent =>
    /\ request.max.type = "undefined" => dispatch.maxTokens = JsNum(120)
    /\ request.max.type = "number" => dispatch.maxTokens = request.max
    /\ request.max \in {JsStr(<<"0">>)} => dispatch.maxTokens = JsNum(0)
    /\ request.max = JsStr(<<"2", "0", "0">>) =>
         dispatch.maxTokens = JsNum(200)

\* C26 (amended): the gated variant hands the backend the number the max of
\* the request stands for when that max is a text that is not empty ("0"
\* gives 0) or a number other than 0, and 120 when the max is missing, the
\* empty text or the number 0; the ungated variant hands it no budget.
C26_TokenBudget ==
  dispatch.sent =>
    /\ variant = VariantGated =>
         /\ request.max.type = "undefined" => dispatch.maxTokens = JsNum(120)
         /\ request.max = JsStr(<<>>) => dispatch.maxTokens = JsNum(120)
         /\ request.max = JsNum(0) => dispatch.maxTokens = JsNum(120)
         /\ request.max = JsStr(<<"0">>) => dispatch.maxTokens = JsNum(0)
         /\ request.max = JsStr(<<"2", "0", "0">>) =>
              dispatch.maxTokens = JsNum(200)
         /\ (request.max.type = "number" /\ request.max.n # 0) =>
              dispatch.maxTokens = request.max
         /\ dispatch.maxTokens.type = "number"
    /\ variant = VariantUngated => dispatch.maxTokens = JsUndef

\* the text "0" as max gave the budget 0
C26_Witness ==
  /\ dispatch.sent
  /\ variant = VariantGated
  /\ request.max = JsStr(<<"0">>)
  /\ dispatch.maxTokens = JsNum(0)

\* --------------------------------------------------------------------
\* C27: a call of saveSettings leaves the settings it was given under the
\* settings key, requests exactly one flush, and requests it when the record
\* is already under the key; getSettings after the call returns every saved
\* field with its saved value.
C27_SaveThenFlush ==
  [][opLog' = Append(opLog, "saveSettings") =>
       /\ flushes' = flushes + 1
       /\ flushed' = stored'
       /\ \E settings \in HandlerSettings(variant, stored) :
            /\ stored'.exists
            /\ stored'.has = settings.has
            /\ settings.has \subseteq getSettings(variant, stored').has
            /\ \A f \in settings.has :
                 getSettings(variant, stored')[f] = settings[f]]_vars

\* the cleared textarea was saved over a record that held the auto flag; one
\* flush was requested with that record under the key, and the getSettings
\* that followed returned the empty text and the flag
C27_Witness ==
  /\ opLog = <<"saveSettings", "getSettings">>
  /\ flushes = 1
  /\ flushed = stored
  /\ stored.has = SettingsFields
  /\ stored.sceneChangeInstructions = ClearedText
  /\ stored.autoGenerateBackground
  /\ lastRead.sceneChangeInstructions = ClearedText
  /\ lastRead.autoGenerateBackground

\* --------------------------------------------------------------------
\* C28: no step of a transition invocation changes the record under the
\* settings key or requests a settings flush; a step that changes the record
\* or requests a flush is onReady running initializeSettings or a handler of
\* the settings panel, and it leaves every invocation and the chat as they
\* were.
C28_InvocationLeavesSettings ==
  [][/\ (inv' # inv \/ chat' # chat \/ started' # started) =>
          /\ stored' = stored
          /\ flushes' = flushes
          /\ flushed' = flushed
     /\ (stored' # stored \/ flushes' # flushes) =>
          /\ inv' = inv
          /\ chat' = chat
          /\ \/ ~ready /\ ready'
             \/ ready /\ ready' /\ flushes' = flushes + 1]_vars

\* an invocation has read the settings twice, inserted its message and
\* fired the trigger on the persisted auto flag; the record, which holds the
\* flag alone, is still the one found at load and no flush was requested
C28_Witness ==
  \E i \in Slots :
    /\ inv[i].pc = "done"
    /\ inv[i].inserted
    /\ Truthy(inv[i].should)
    /\ CountOf(inv[i], "getSettings") = 2
    /\ stored.exists
    /\ stored.has = {"autoGenerateBackground"}
    /\ stored.autoGenerateBackground
    /\ flushes = 0
    /\ flushed = NoRecord

\* --------------------------------------------------------------------
\* C29: once initializeSettings has run (the extension is ready), there is a
\* record under the settings key in every state, whatever settings updates
\* and transition invocations follow, and no step removes a record that is
\* there.
C29_RecordStays ==
  /\ [](ready => stored.exists)
  /\ [][stored.exists => stored'.exists]_vars

\* after initializeSettings, an update of the settings panel that cleared
\* the instructions and a completed invocation, the record is there and is
\* the one the last flush request saw
C29_Witness ==
  /\ ready
  /\ flushes >= 1
  /\ \E i \in Slots : inv[i].pc = "done" /\ inv[i].inserted
  /\ stored.exists
  /\ stored.sceneChangeInstructions = ClearedText
  /\ flushed = stored

\* --------------------------------------------------------------------
\* C30: a step that lengthens the chat appends one message of an invocation
\* whose line is ready: the message is not a user message, its text is the
\* line generateSceneLine gave that invocation (the normalised result of
\* the backend, or the diagnostic placeholder when generation failed) and
\* is not empty, and its name is the name of the character open at that
\* step; every message after the initial chat is a non-user message with a
\* non-empty text.
C30_MessageShape ==
  /\ [][chat' # chat =>
          \E i \in Slots :
            /\ inv[i].pc = "gotLine"
            /\ chat' = Append(chat, chat'[Len(chat')])
            /\ ~chat'[Len(chat')].is_user
            /\ chat'[Len(chat')].mes = inv[i].line
            /\ inv[i].genFail = "none" =>
                 chat'[Len(chat')].mes = FinalResult(inv[i].result)
            /\ inv[i].genFail # "none" =>
                 chat'[Len(chat')].mes =
                   ErrorFallbackMessage(variant, inv[i].instruction,
                                        inv[i].style, inv[i].genMsg)
            /\ chat'[Len(chat')].mes # <<>>
            /\ chat'[Len(chat')].name = activeChar]_vars
  /\ [](\A k \in (Len(InitialChat) + 1)..Len(chat) :
          /\ ~chat[k].is_user
          /\ chat[k].mes # <<>>
          /\ chat[k].name \in CharNames \cup OtherCharNames)

\* an invocation whose directive was composed while the first character was
\* open has appended its message after the user opened the other one: the
\* message bears the other character's name
C30_Witness ==
  \E i \in Slots, c \in CharNames, o \in OtherCharNames :
    /\ inv[i].pc = "awaitReceived"
    /\ Contains(inv[i].prompt, c)
    /\ activeChar = o
    /\ chat[Len(chat)].name = o
    /\ chat[Len(chat)].mes = inv[i].line
    /\ inv[i].genFail = "none"
    /\ ~chat[Len(chat)].is_user

\* --------------------------------------------------------------------
\* every awaited collaborator call of an invocation in flight eventually
\* returns or throws, the continuation that waits for it runs, and the
\* caller takes the outcome
CollaboratorsSettle ==
  \A i \in Slots :
    /\ WF_vars(GenDone(i))
    /\ WF_vars(ResumeWithLine(i))
    /\ WF_vars(ReceivedDone(i))
    /\ WF_vars(RenderedDone(i))
    /\ WF_vars(SaveDone(i))
    /\ WF_vars(BgDone(i))
    /\ WF_vars(Return(i))

\* a host with or without the generation capability and, in the gated
\* variant, with every image-generation record; the auto flag persisted so
\* that the background step is taken
InitLive ==
  /\ variant \in Variants
  /\ hasQuietPrompt \in BOOLEAN
  /\ stored = AutoOnBlob
  /\ sd \in IF variant = VariantGated THEN SdRecords ELSE {NoSdRecord}
  /\ flushes = 0
  /\ flushed = NoRecord
  /\ ready = FALSE
  /\ activeChar \in CharNames
  /\ chat = InitialChat
  /\ inv = [i \in Slots |-> IdleInv]
  /\ started = 0
  /\ overlap = FALSE
  /\ opLog = <<>>
  /\ lastRead = EmptyObject
  /\ request = NoRequest
  /\ dispatch = NoDispatch
  /\ buttonDisabled = FALSE
  /\ dom = HostDom
  /\ probeHost = NoProbeHost
  /\ probeResult = JsUndef

\* the invocations alone; the settings panel is left alone
NextLive ==
  \/ OnReady
  \/ \E i \in Slots : Start(i)
  \/ \E i \in Slots : GenDone(i)
  \/ \E i \in Slots : ResumeWithLine(i)
  \/ \E i \in Slots : ReceivedDone(i)
  \/ \E i \in Slots : RenderedDone(i)
  \/ \E i \in Slots : SaveDone(i)
  \/ \E i \in Slots : BgDone(i)
  \/ \E i \in Slots : Return(i)

\* the invocations of Spec, with every collaborator failure, and with
\* collaborators that always settle
SpecLive == InitLive /\ [][NextLive]_vars /\ CollaboratorsSettle

\* C31: with collaborators that always settle, every invocation that has
\* started eventually returns with an outcome string; an invocation that
\* waits for the generation call has no outcome and has appended nothing,
\* and nothing but the settling of that call moves it on.
C31_Terminates ==
  /\ \A i \in Slots :
       (inv[i].pc \notin {"idle", "done"}) ~>
         (inv[i].pc = "done" /\ inv[i].outcome.kind = "returned")
  /\ [](\A i \in Slots :
          inv[i].pc = "awaitGen" =>
            /\ inv[i].outcome = NoOutcome
            /\ \A k \in 1..Len(inv[i].calls) : inv[i].calls[k] # "chat.push")
  /\ [][\A i \in Slots :
          (inv[i].pc = "awaitGen" /\ inv'[i] # inv[i]) =>
            /\ inv'[i].pc = "gotLine"
            /\ chat' = chat]_vars

\* an invocation waits for the generation call: it has dispatched the
\* directive, has no outcome, and the chat is the initial one
C31_Witness ==
  \E i \in Slots :
    /\ inv[i].pc = "awaitGen"
    /\ inv[i].calls[Len(inv[i].calls)] = "generateQuietPrompt"
    /\ inv[i].outcome = NoOutcome
    /\ chat = InitialChat

\* --------------------------------------------------------------------
\* the drawers of the extension in the settings container
Drawers == {k \in 1..Len(dom.ids) : dom.ids[k] = DrawerId}

\* C37 (as claimed): after any number of calls of createSettingsUI there is
\* exactly one settings drawer in the settings container, a second call
\* being a no-op.
C37_AsClaimed ==
  (dom.container /\ \E k \in 1..Len(opLog) : opLog[k] = "createSettingsUI") =>
    Cardinality(Drawers) = 1

\* --------------------------------------------------------------------
\* a transition the button started has not finished
ButtonTransitionInProgress ==
  \E i \in Slots : inv[i].byButton /\ inv[i].pc \notin {"idle", "done"}

\* C32 (as claimed): the button is disabled in every state in which a
\* transition started from the button is still in progress, also when it
\* was clicked again before an earlier transition finished; it is enabled
\* when no such transition is left.
C32_AsClaimed ==
  /\ ButtonTransitionInProgress => buttonDisabled
  /\ (\A i \in Slots : inv[i].pc = "idle") => ~buttonDisabled

\* --------------------------------------------------------------------
\* C33 (as claimed): when an invocation has returned an "Error: ..."
\* outcome, the message it appended is not in the chat: the chat is as it
\* was before the invocation, also when an emit or saveChat failed after the
\* append.
C33_AsClaimed ==
  \A i \in Slots :
    (/\ inv[i].pc = "done"
     /\ inv[i].outcome.kind = "returned"
     /\ StartsWith(inv[i].outcome.text, ErrorPrefix)) =>
      ~OwnMessageInChat(inv[i])

\* --------------------------------------------------------------------
\* C34: the step that appends the message of an invocation sets its msgId,
\* the index both emits pass, to the zero-based index of the appended
\* message; the msgId stays what it is until the invocation is over, the
\* chat only grows, and two invocations in flight never hold the same msgId:
\* in every state the message at an invocation's msgId carries its line.
C34_OwnIndex ==
  /\ [][/\ IsPrefix(chat, chat')
        /\ \A i \in Slots :
             /\ (inv[i].msgId < 0 /\ inv'[i].msgId >= 0) =>
                  /\ Len(chat') = Len(chat) + 1
                  /\ inv'[i].msgId = Len(chat)
                  /\ chat'[inv'[i].msgId + 1].mes = inv[i].line
             /\ (inv[i].msgId >= 0 /\ inv'[i].pc # "idle") =>
                  inv'[i].msgId = inv[i].msgId]_vars
  /\ [](\A i \in Slots :
          /\ inv[i].msgId >= 0 =>
               /\ inv[i].msgId + 1 <= Len(chat)
               /\ chat[inv[i].msgId + 1].mes = inv[i].line
               /\ "chat.push" \in CallSet(inv[i])
          /\ \A j \in Slots \ {i} :
               inv[i].msgId >= 0 => inv[j].msgId # inv[i].msgId)

\* two invocations overlap and both wait on an emit: the one called second
\* appended first and holds index 1, the one called first holds index 2
C34_Witness ==
  \E i, j \in Slots :
    /\ inv[i].startNo < inv[j].startNo
    /\ inv[i].pc \in {"awaitReceived", "awaitRendered"}
    /\ inv[j].pc \in {"awaitReceived", "awaitRendered"}
    /\ inv[j].msgId = Len(InitialChat)
    /\ inv[i].msgId = Len(InitialChat) + 1
    /\ chat[inv[i].msgId + 1].mes = inv[i].line
    /\ chat[inv[j].msgId + 1].mes = inv[j].line
    /\ inv[i].line # inv[j].line

\* --------------------------------------------------------------------
\* C35: the step that completes the insertion of an invocation without an
\* explicit flag decides the trigger by the auto flag persisted in the state
\* of that step (and, in the gated variant, the probe), whatever the flag
\* was when the invocation started; the instruction template an invocation
\* read when it started and the directive composed from it are the ones of
\* the store at that step, and no later step, a settings update included,
\* changes them while the invocation is in flight.
C35_ReadTimes ==
  [][\A i \in Slots :
       /\ (/\ inv[i].pc = "awaitSave"
           /\ inv'[i].decided
           /\ inv[i].generateBg.type = "undefined") =>
            inv'[i].should =
              JsBool(PersistedAuto
                     /\ (variant = VariantGated => BackendConfigured))
       /\ (inv[i].pc = "idle" /\ inv'[i].pc = "awaitGen") =>
            /\ inv'[i].instructions =
                 SceneChangeInstructions(variant, getSettings(variant, stored))
            /\ Contains(inv'[i].prompt,
                        substituteParams(inv'[i].instructions, activeChar))
       /\ (inv[i].pc # "idle" /\ inv'[i].pc # "idle") =>
            /\ inv'[i].instructions = inv[i].instructions
            /\ inv'[i].prompt = inv[i].prompt]_vars

\* two invocations without an explicit flag overlapped; the generation of
\* the one settled first, the other one decided while the auto flag was on
\* and fired the trigger, then the checkbox was cleared and the first one
\* decided: it did not fire
C35_Witness ==
  \E i, j \in Slots :
    /\ inv[i].pc = "done"
    /\ inv[j].pc \in {"awaitBg", "done"}
    /\ inv[i].generateBg.type = "undefined"
    /\ inv[j].generateBg.type = "undefined"
    /\ inv[i].readyNo < inv[j].readyNo
    /\ inv[j].decided /\ Truthy(inv[j].should)
    /\ inv[i].decided /\ ~Truthy(inv[i].should)
    /\ ~stored.autoGenerateBackground
    /\ flushes = 1

\* --------------------------------------------------------------------
\* the value getSettings resolves for option f from record st, and whether
\* it resolves one
Resolved(st, f) ==
  <<f \in getSettings(variant, st).has, getSettings(variant, st)[f]>>

\* C36: a handler of the settings panel saves a record in which its own
\* option is set and the other option resolves to what it resolved to
\* before: the checkbox handler leaves the resolved instructions, the
\* textarea and reset handlers leave the resolved auto flag; so each option
\* resolves to what its last update set.
C36_OtherOptionKept ==
  [][opLog' = Append(opLog, "saveSettings") =>
       \/ /\ Resolved(stored', "sceneChangeInstructions")[1]
          /\ Resolved(stored', "autoGenerateBackground")
               = Resolved(stored, "autoGenerateBackground")
       \/ /\ Resolved(stored', "autoGenerateBackground")[1]
          /\ Resolved(stored', "sceneChangeInstructions")
               = Resolved(stored, "sceneChangeInstructions")]_vars

\* the textarea handler and the checkbox handler have both run: getSettings
\* returns the typed instructions and the checked flag, each as its own
\* handler saved it
C36_Witness ==
  /\ opLog = <<"saveSettings", "saveSettings", "getSettings">>
  /\ lastRead.sceneChangeInstructions = <<"Fade to black.">>
  /\ lastRead.autoGenerateBackground
  /\ flushes = 2

\* --------------------------------------------------------------------
\* C38: the availability probe never throws; it answers true exactly when
\* reading the host context does not throw, the context has extension
\* settings, and they hold an sd record whose source is one of the
\* recognised identifiers; in every other case, a missing or empty or
\* unrecognised source included, it answers false.
C38_Probe ==
  probeResult # JsUndef =>
    /\ probeResult \in {JsStr(<<"true">>), JsStr(<<"false">>)}
    /\ probeResult = JsStr(<<"true">>) <=>
         /\ ~probeHost.throws
         /\ probeHost.hasExtensionSettings
         /\ probeHost.sd.exists
         /\ probeHost.sd.source \in validSources

\* the probe answered false in a host whose context cannot be read although
\* its sd record names a recognised source
C38_Witness ==
  /\ probeResult = JsStr(<<"false">>)
  /\ probeHost.throws
  /\ probeHost.hasExtensionSettings
  /\ probeHost.sd = [exists |-> TRUE, source |-> "comfy"]

====
